---- MODULE Spec2Model ----
(***************************************************************************)
(* agent-telemetry: the rotating JSONL writer (createWriter) and the       *)
(* telemetry facade (createTelemetry.emit).                                *)
(*                                                                         *)
(* The writer is the asynchronous one: write() enqueues and schedules a    *)
(* flush microtask; the flush pass (flushPending) drains the queue in      *)
(* batches and suspends on every filesystem operation.  Each suspension    *)
(* point of a pass is a value of its pc; an action completes the operation *)
(* in flight and runs the code up to the next await.                       *)
(***************************************************************************)
EXTENDS Integers, Sequences, FiniteSets, TLC

\* ------------------------------------------------------------------ bounds
MaxCalls == 3        \* caller-side calls (write / emit) in one behaviour

\* ------------------------------------------------------------- environment
\* Paths of the log directory: 0 is the live file, i >= 1 the backup ".i".
Paths == 0 .. 4

NoFile == [kind |-> "none", data |-> <<>>]

\* Content present before the writer was created: `bytes` bytes, no
\* trailing newline, tagged with the path it was found at (ids <= 0).
Filler(p, bytes) ==
    [line |-> [id |-> 0 - p, len |-> bytes, stamped |-> FALSE], nl |-> FALSE]

OldFile(p, bytes) == [kind |-> "file", data |-> <<Filler(p, bytes)>>]

\* A directory sitting where a file is expected; stat reports `bytes`.
OldDir(p, bytes) == [kind |-> "dir", data |-> <<Filler(p, bytes)>>]

Dir(live, b1, b2, b3) ==
    (0 :> live) @@ (1 :> b1) @@ (2 :> b2) @@ (3 :> b3) @@ (4 :> NoFile)

\* Log directories the writer may be created over.
InitDirs ==
    { Dir(NoFile, NoFile, NoFile, NoFile),
      Dir(OldFile(0, 5), NoFile, NoFile, NoFile),
      Dir(OldFile(0, 2), OldFile(1, 1), NoFile, NoFile),
      Dir(OldFile(0, 4), OldFile(1, 1), OldFile(2, 1), OldFile(3, 1)),
      Dir(OldFile(0, 5), NoFile, OldFile(2, 1), NoFile),
      Dir(NoFile, OldFile(1, 1), NoFile, NoFile),
      Dir(OldDir(0, 1), NoFile, NoFile, NoFile),
      Dir(OldDir(0, 5), OldFile(1, 1), NoFile, NoFile) }

\* Configurations (WriterConfig.maxSize, WriterConfig.maxBackups).
Configs == [maxSize : {0, 4}, maxBackups : {-1, 0, 1, 3}]

\* cfg.prefix
Prefix == "[TEL]"

VARIABLES
    mode,                \* "fs": the probe succeeded; "console": it failed
    cfg,                 \* the WriterConfig in use
    fs,                  \* the log directory: path -> file
    useConsoleFallback,  \* the fallback latch
    flushScheduled,      \* a flush microtask has been queued and not yet run
    flushInProgress,     \* a flush pass is running
    sizeCache,           \* <<>> when undefined, <<n>> when n
    pending,             \* lines enqueued and not yet taken by a pass
    microtasks,          \* flush microtasks queued on the event loop
    passes,              \* the flush passes in progress, each suspended
    console,             \* what console.log printed, in order
    calls,               \* number of write/emit calls made so far
    lastCall,            \* the most recent caller-side call and its outcome
    appended,            \* every line appended to the live file, in order
    caught,              \* <<>>, or <<the batch and queue the catch block saw>>
    hdr,                 \* the header last handed to the traceparent functions
    parsed,              \* <<>> for null, or <<what parseTraceparent returned>>
    span,                \* <<>>, or <<the context startSpanFromTraceparent returned>>
    fmtIn,               \* <<>>, or <<the ids last handed to formatTraceparent>>
    minted,              \* how many UUIDs the process has drawn
    traceOp,             \* the traceparent operation that ran last
    hop,                 \* one traced fetch on its way through the adapters
    events,              \* the events the adapters have emitted, in order
    express,             \* one request on its way through the Express middleware
    fastify,             \* one request on its way through the Fastify plugin
    browser,             \* the browser trace context and the withSpan calls in progress
    extract,             \* the last entity extraction: its arguments and its result
    wrapped              \* one call of an instrumented operation through its wrapper

vars == <<mode, cfg, fs, useConsoleFallback, flushScheduled, flushInProgress,
          sizeCache, pending, microtasks, passes, console, calls, lastCall,
          appended, caught, hdr, parsed, span, fmtIn, minted, traceOp, hop,
          events, express, fastify, browser, extract, wrapped>>

hopVars == <<hop, events>>

\* The state of the adapters other than the fetch under way.
adapterVars == <<express, fastify, browser, extract, wrapped>>

traceVars ==
    <<hdr, parsed, span, fmtIn, minted, traceOp, hop, events, adapterVars>>

\* A header the caller does not have (null or undefined).  parts records the
\* four segments a header was assembled from, <<>> when it was not.
NoHeader == [present |-> FALSE, text |-> <<>>, parts |-> <<>>, deco |-> "asis"]

\* No fetch is under way.
NoHop == [pc |-> "none"]

\* An adapter nothing has reached yet.
Unused == [pc |-> "none"]

\* No request has reached an adapter, the one named own aside.
AdapterIdleBut(own) ==
    /\ own # "express" => express = Unused
    /\ own # "fastify" => fastify = Unused
    /\ own # "browser" => browser = Unused
    /\ own # "extract" => extract = Unused
    /\ own # "wrapped" => wrapped = Unused

AdapterIdle == AdapterIdleBut("none")

\* No traceparent function has run yet.
TraceIdle ==
    /\ hdr = NoHeader
    /\ parsed = <<>>
    /\ span = <<>>
    /\ fmtIn = <<>>
    /\ minted = 0
    /\ traceOp = "none"
    /\ hop = NoHop
    /\ events = <<>>
    /\ AdapterIdle

\* ------------------------------------------------------------ pure helpers
RECURSIVE SumBytes(_)
SumBytes(s) ==
    IF s = <<>> THEN 0
    ELSE Head(s).line.len + (IF Head(s).nl THEN 1 ELSE 0) + SumBytes(Tail(s))

\* `${line}\n` for every line of the batch: batch.map(...).join("")
ChunkOf(batch) == [k \in DOMAIN batch |-> [line |-> batch[k], nl |-> TRUE]]

\* Buffer.byteLength(chunk)
IncomingSize(batch) == SumBytes(ChunkOf(batch))

FileSize(f) == SumBytes(f.data)

\* console.log(`${cfg.prefix} ${line}`)
ConsoleLine(line) == [tag |-> Prefix, line |-> line]

EchoAll(lines) == [k \in DOMAIN lines |-> ConsoleLine(lines[k])]

\* The probe of createWriter: the imports, mkdir and the existsSync check.
ProbeMode(importOk, mkdirOk, existsAfter) ==
    IF importOk /\ mkdirOk /\ existsAfter THEN "fs" ELSE "console"

NoCall ==
    [op |-> "none", arg |-> "none", threw |-> FALSE, id |-> 0,
     afterDisabled |-> FALSE]

\* The writer just created with configuration c over the directory dir.
Created(c, dir) ==
    /\ \E importOk \in BOOLEAN, mkdirOk \in BOOLEAN, existsAfter \in BOOLEAN :
          mode = ProbeMode(importOk, mkdirOk, existsAfter)
    /\ cfg = c
    /\ fs = dir
    /\ useConsoleFallback = FALSE
    /\ flushScheduled = FALSE
    /\ flushInProgress = FALSE
    /\ sizeCache = <<>>
    /\ pending = <<>>
    /\ microtasks = 0
    /\ passes = <<>>
    /\ console = <<>>
    /\ calls = 0
    /\ lastCall = NoCall
    /\ appended = <<>>
    /\ caught = <<>>

Init == TraceIdle /\ \E c \in Configs, dir \in InitDirs : Created(c, dir)

\* ------------------------------------------------------------- the writer
RemoveAt(s, k) == [j \in 1 .. (Len(s) - 1) |-> IF j < k THEN s[j] ELSE s[j + 1]]

\* scheduleFlush's early return.
ScheduleBlockedInverted(scheduled, inProgress, fallback) ==
    ~(scheduled \/ inProgress \/ fallback)

ScheduleBlockedIgnoresScheduled(scheduled, inProgress, fallback) ==
    inProgress \/ fallback

ScheduleBlocked(scheduled, inProgress, fallback) ==
    scheduled \/ inProgress \/ fallback

\* write(line) of the writer returned by createWriter: the values it leaves
\* behind and whether an exception escapes to its caller.
WriteResultSync(line) ==
    \* an append done by write() itself, its error not caught
    IF fs[0].kind = "dir"
    THEN [pending |-> pending, console |-> console, schedule |-> FALSE,
          fs |-> fs, sizeCache |-> sizeCache, threw |-> TRUE]
    ELSE [pending |-> pending, console |-> console, schedule |-> FALSE,
          fs |-> [fs EXCEPT ![0] = [kind |-> "file",
                                    data |-> fs[0].data \o ChunkOf(<<line>>)]],
          sizeCache |-> sizeCache, threw |-> FALSE]

WriteResultNoLatch(line) ==
    \* the latch is not consulted: the line is queued in fallback mode too
    IF mode = "console"
    THEN [pending |-> pending,
          console |-> Append(console, ConsoleLine(line)),
          schedule |-> FALSE,
          fs |-> fs, sizeCache |-> sizeCache, threw |-> FALSE]
    ELSE [pending |-> Append(pending, line),
          console |-> console,
          schedule |-> ~ScheduleBlocked(flushScheduled, flushInProgress,
                                        useConsoleFallback),
          fs |-> fs, sizeCache |-> sizeCache, threw |-> FALSE]

WriteResultProbeIgnored(line) ==
    \* the writer with the queue is returned whatever the probe found
    IF useConsoleFallback
    THEN [pending |-> pending,
          console |-> Append(console, ConsoleLine(line)),
          schedule |-> FALSE,
          fs |-> fs, sizeCache |-> sizeCache, threw |-> FALSE]
    ELSE [pending |-> Append(pending, line),
          console |-> console,
          schedule |-> ~ScheduleBlocked(flushScheduled, flushInProgress,
                                        useConsoleFallback),
          fs |-> fs, sizeCache |-> sizeCache, threw |-> FALSE]

WriteResult(line) ==
    IF mode = "console" \/ useConsoleFallback
    THEN [pending |-> pending,
          console |-> Append(console, ConsoleLine(line)),
          schedule |-> FALSE,
          fs |-> fs, sizeCache |-> sizeCache, threw |-> FALSE]
    ELSE [pending |-> Append(pending, line),
          console |-> console,
          schedule |-> ~ScheduleBlocked(flushScheduled, flushInProgress,
                                        useConsoleFallback),
          fs |-> fs, sizeCache |-> sizeCache, threw |-> FALSE]

ApplyWrite(r) ==
    /\ pending' = r.pending
    /\ console' = r.console
    /\ fs' = r.fs
    /\ sizeCache' = r.sizeCache
    /\ flushScheduled' = (flushScheduled \/ r.schedule)
    /\ microtasks' = microtasks + (IF r.schedule THEN 1 ELSE 0)
    /\ UNCHANGED <<mode, cfg, useConsoleFallback, flushInProgress, passes,
                   appended, caught>>

\* A caller hands a raw line to writer.write.
Write(len) ==
    /\ calls < MaxCalls
    /\ LET line == [id |-> calls + 1, len |-> len, stamped |-> FALSE]
           r == WriteResult(line)
       IN  /\ ApplyWrite(r)
           /\ calls' = calls + 1
           /\ lastCall' = [op |-> "write", arg |-> "line", threw |-> r.threw,
                           id |-> line.id,
                           afterDisabled |-> lastCall.arg = "disabled"]

\* ------------------------------------------------------------- the facade
\* The body of emit's try block: what it does for an event and a guard.
EmitBodyCachedGuard(ev, guard) ==
    \* the guard's previous answer is remembered instead of asking again
    CASE guard = "throws" -> "throw"
      [] guard = "false" \/ lastCall.arg = "disabled" -> "return"
      [] ev = "circular" -> "throw"
      [] OTHER -> "write"

EmitBody(ev, guard) ==
    CASE guard = "throws" -> "throw"
      [] guard = "false" -> "return"
      [] ev = "circular" -> "throw"
      [] OTHER -> "write"

\* The case of an emit call, as recorded in lastCall.
EmitCase(ev, guard) ==
    CASE guard = "throws" -> "guard-throws"
      [] guard = "false" -> "disabled"
      [] OTHER -> ev

\* emit's try/catch: does an exception of the body reach the caller?
EmitThrewNoCatch(bodyThrew) == bodyThrew

EmitThrew(bodyThrew) == FALSE

\* JSON.stringify({ ...event, timestamp }): the line of a serializable event.
Stringify(ev, id) == [id |-> id, len |-> 2, stamped |-> TRUE]

Emit(ev, guard) ==
    /\ calls < MaxCalls
    /\ calls' = calls + 1
    /\ LET body == EmitBody(ev, guard)
           line == Stringify(ev, calls + 1)
           r == WriteResult(line)
       IN  IF body = "write"
           THEN /\ ApplyWrite(r)
                /\ lastCall' = [op |-> "emit", arg |-> EmitCase(ev, guard),
                                threw |-> EmitThrew(r.threw), id |-> line.id,
                                afterDisabled |-> lastCall.arg = "disabled"]
           ELSE /\ lastCall' = [op |-> "emit", arg |-> EmitCase(ev, guard),
                                threw |-> EmitThrew(body = "throw"), id |-> 0,
                                afterDisabled |-> lastCall.arg = "disabled"]
                /\ UNCHANGED <<mode, cfg, fs, useConsoleFallback,
                               flushScheduled, flushInProgress, sizeCache,
                               pending, microtasks, passes, console, appended,
                               caught>>

\* --------------------------------------------------------- the flush pass
\* flushPending's early return.
FlushBlocked(inProgress, fallback) == inProgress \/ fallback

\* flushPending marks the pass it starts: `flushInProgress = true`.
FlagNotSet == FALSE

FlagWhileFlushing == TRUE

\* The loop test of flushPending.
LoopContinues(queue, fallback) == Len(queue) > 0 /\ ~fallback

\* `currentSize + incomingSize > cfg.maxSize`, rotation enabled.
NeedsRotateNoGuard(currentSize, incoming) ==
    currentSize + incoming > cfg.maxSize

NeedsRotateSizeOnly(currentSize, incoming) ==
    cfg.maxSize > 0 /\ currentSize > cfg.maxSize

NeedsRotate(currentSize, incoming) ==
    cfg.maxSize > 0 /\ currentSize + incoming > cfg.maxSize

\* The loop body up to its first await: the queue is taken as the batch and
\* getCurrentSize is called; it answers from the cache or starts a stat.
BeginBatch(batch, cache, dir) ==
    [pc |-> IF cache # <<>> THEN "cached" ELSE "stat",
     batch |-> batch,
     currentSize |-> IF cache # <<>> THEN cache[1] ELSE 0,
     i |-> 0,
     fs0 |-> dir]

\* After `await getCurrentSize()`: rotate first, or append.
SizeKnown(rec, size) ==
    [rec EXCEPT !.currentSize = size,
                !.pc = IF NeedsRotate(size, IncomingSize(rec.batch))
                       THEN "rot_access" ELSE "append"]

RotatedKeepsSize(rec) == [rec EXCEPT !.pc = "append", !.i = 0]

\* After rotate() returned: `currentSize = 0`, then the append.
Rotated(rec) == [rec EXCEPT !.currentSize = 0, !.pc = "append", !.i = 0]

\* rotate, the live file exists: delete it outright, or shift the chain.
RotateBranchAlwaysArchive == "rot_rename_live"

RotateBranch ==
    IF cfg.maxBackups <= 0 THEN "rot_unlink_live" ELSE "rot_unlink_oldest"

\* The for loop of rotate at index i: test ".i", or leave the loop.
LoopFromSkip(rec, i) == [rec EXCEPT !.pc = "rot_rename_live", !.i = 0]

LoopFrom(rec, i) ==
    IF i >= 1 THEN [rec EXCEPT !.pc = "rot_loop_access", !.i = i]
    ELSE [rec EXCEPT !.pc = "rot_rename_live", !.i = 0]

\* fsPromises.unlink / rename / appendFile on the directory `dir`.
UnlinkError(dir, p) ==
    CASE dir[p].kind = "none" -> "ENOENT"
      [] dir[p].kind = "dir" -> "EISDIR"
      [] OTHER -> "none"

RenameError(dir, from, to) ==
    CASE dir[from].kind = "none" -> "ENOENT"
      [] dir[to].kind = "dir" /\ dir[from].kind = "file" -> "EISDIR"
      [] dir[to].kind = "file" /\ dir[from].kind = "dir" -> "ENOTDIR"
      [] OTHER -> "none"

RenamedCopies(dir, from, to) == [dir EXCEPT ![to] = dir[from]]

Renamed(dir, from, to) == [dir EXCEPT ![to] = dir[from], ![from] = NoFile]

AppendError(dir, p) == IF dir[p].kind = "dir" THEN "EISDIR" ELSE "none"

Appended(dir, p, chunk) ==
    [dir EXCEPT ![p] = [kind |-> "file", data |-> dir[p].data \o chunk]]

\* The lines the catch block of flushPending echoes, in order.
CatchEchoBatchOnly(batch, queue) == batch

CatchEchoQueueFirst(batch, queue) == queue \o batch

CatchEcho(batch, queue) == batch \o queue

\* The finally block: is another flush scheduled?
FinallySchedules(queue, fallback, scheduled) ==
    Len(queue) > 0 /\ ~fallback /\ ~ScheduleBlocked(scheduled, FALSE, fallback)

FailKeepsQueue(p) ==
    \* the queue is echoed but not cleared
    /\ useConsoleFallback' = TRUE
    /\ console' = console \o EchoAll(CatchEcho(passes[p].batch, pending))
    /\ sizeCache' = <<>>
    /\ flushInProgress' = FALSE
    /\ passes' = RemoveAt(passes, p)
    /\ caught' = <<[batch |-> passes[p].batch, queue |-> pending]>>
    /\ UNCHANGED <<mode, cfg, fs, flushScheduled, microtasks, calls,
                   lastCall, appended, pending>>

\* A filesystem operation of pass p threw: the catch block, the loop test
\* (now false) and the finally block.
Fail(p) ==
    /\ useConsoleFallback' = TRUE
    /\ console' = console \o EchoAll(CatchEcho(passes[p].batch, pending))
    /\ pending' = <<>>
    /\ sizeCache' = <<>>
    /\ flushInProgress' = FALSE
    /\ passes' = RemoveAt(passes, p)
    /\ caught' = <<[batch |-> passes[p].batch, queue |-> pending]>>
    /\ UNCHANGED <<mode, cfg, fs, flushScheduled, microtasks, calls,
                   lastCall, appended>>

\* Pass p goes on to its next await with record rec.
Continue(p, rec) ==
    /\ passes' = [passes EXCEPT ![p] = rec]
    /\ UNCHANGED <<mode, cfg, useConsoleFallback, flushScheduled,
                   flushInProgress, pending, microtasks, console, calls,
                   lastCall, caught>>

RunMicrotaskKeepsQueue ==
    \* the batch is taken but the queue is not replaced by an empty one
    /\ microtasks > 0
    /\ microtasks' = microtasks - 1
    /\ flushScheduled' = FALSE
    /\ IF FlushBlocked(flushInProgress, useConsoleFallback)
          \/ ~LoopContinues(pending, useConsoleFallback)
       THEN UNCHANGED <<flushInProgress, passes, pending>>
       ELSE /\ flushInProgress' = FlagWhileFlushing
            /\ passes' = Append(passes, BeginBatch(pending, sizeCache, fs))
            /\ pending' = pending
    /\ UNCHANGED <<mode, cfg, fs, useConsoleFallback, sizeCache, console,
                   calls, lastCall, appended, caught>>

\* The flush microtask runs: flushScheduled is cleared and flushPending is
\* called; it runs up to its first await.
RunMicrotask ==
    /\ microtasks > 0
    /\ microtasks' = microtasks - 1
    /\ flushScheduled' = FALSE
    /\ IF FlushBlocked(flushInProgress, useConsoleFallback)
          \/ ~LoopContinues(pending, useConsoleFallback)
       THEN UNCHANGED <<flushInProgress, passes, pending>>
       ELSE /\ flushInProgress' = FlagWhileFlushing
            /\ passes' = Append(passes, BeginBatch(pending, sizeCache, fs))
            /\ pending' = <<>>
    /\ UNCHANGED <<mode, cfg, fs, useConsoleFallback, sizeCache, console,
                   calls, lastCall, appended, caught>>

\* getCurrentSize answered from the cache.
CompleteCached(p) ==
    /\ passes[p].pc = "cached"
    /\ Continue(p, SizeKnown(passes[p], passes[p].currentSize))
    /\ UNCHANGED <<fs, sizeCache, appended>>

\* fsPromises.stat(logFile) of getCurrentSize completes.
CompleteStat(p, envOk) ==
    /\ passes[p].pc = "stat"
    /\ IF ~envOk THEN Fail(p)
       ELSE LET size == IF fs[0].kind = "none" THEN 0 ELSE FileSize(fs[0])
            IN  /\ sizeCache' = <<size>>
                /\ Continue(p, SizeKnown(passes[p], size))
                /\ UNCHANGED <<fs, appended>>

\* rotate: fileExists(logFile) completes.
CompleteRotAccess(p, envOk) ==
    /\ passes[p].pc = "rot_access"
    /\ IF ~envOk THEN Fail(p)
       ELSE IF fs[0].kind = "none"
       THEN /\ sizeCache' = <<0>>
            /\ Continue(p, Rotated(passes[p]))
            /\ UNCHANGED <<fs, appended>>
       ELSE /\ Continue(p, [passes[p] EXCEPT !.pc = RotateBranch])
            /\ UNCHANGED <<fs, sizeCache, appended>>

\* rotate with maxBackups <= 0: unlinkIfExists(logFile) completes.
CompleteUnlinkLive(p, envOk) ==
    /\ passes[p].pc = "rot_unlink_live"
    /\ LET err == IF envOk THEN UnlinkError(fs, 0) ELSE "EIO"
       IN  IF err \notin {"none", "ENOENT"} THEN Fail(p)
           ELSE /\ fs' = [fs EXCEPT ![0] = NoFile]
                /\ sizeCache' = <<0>>
                /\ Continue(p, Rotated(passes[p]))
                /\ UNCHANGED appended

\* rotate: unlinkIfExists(oldestBackup) completes; the loop starts.
CompleteUnlinkOldestShiftsAll(p, envOk) ==
    \* the oldest backup is kept and shifted like the others
    /\ passes[p].pc = "rot_unlink_oldest"
    /\ Continue(p, LoopFrom(passes[p], cfg.maxBackups))
    /\ UNCHANGED <<fs, sizeCache, appended>>

CompleteUnlinkOldest(p, envOk) ==
    /\ passes[p].pc = "rot_unlink_oldest"
    /\ LET err == IF envOk THEN UnlinkError(fs, cfg.maxBackups) ELSE "EIO"
       IN  IF err \notin {"none", "ENOENT"} THEN Fail(p)
           ELSE /\ fs' = [fs EXCEPT ![cfg.maxBackups] = NoFile]
                /\ Continue(p, LoopFrom(passes[p], cfg.maxBackups - 1))
                /\ UNCHANGED <<sizeCache, appended>>

\* rotate, loop: fileExists(from) completes.
CompleteLoopAccess(p, envOk) ==
    /\ passes[p].pc = "rot_loop_access"
    /\ IF ~envOk THEN Fail(p)
       ELSE /\ Continue(p, IF fs[passes[p].i].kind = "none"
                           THEN LoopFrom(passes[p], passes[p].i - 1)
                           ELSE [passes[p] EXCEPT !.pc = "rot_loop_rename"])
            /\ UNCHANGED <<fs, sizeCache, appended>>

\* rotate, loop: rename(from, to) completes.
CompleteLoopRename(p, envOk) ==
    /\ passes[p].pc = "rot_loop_rename"
    /\ LET i == passes[p].i
           err == IF envOk THEN RenameError(fs, i, i + 1) ELSE "EIO"
       IN  IF err # "none" THEN Fail(p)
           ELSE /\ fs' = Renamed(fs, i, i + 1)
                /\ Continue(p, LoopFrom(passes[p], i - 1))
                /\ UNCHANGED <<sizeCache, appended>>

CompleteRenameLiveKeepsCache(p, envOk) ==
    \* the cached size is left as it was when the live file is renamed away
    /\ passes[p].pc = "rot_rename_live"
    /\ LET err == IF envOk THEN RenameError(fs, 0, 1) ELSE "EIO"
       IN  IF err # "none" THEN Fail(p)
           ELSE /\ fs' = Renamed(fs, 0, 1)
                /\ Continue(p, Rotated(passes[p]))
                /\ UNCHANGED <<sizeCache, appended>>

\* rotate: rename(logFile, logFile.1) completes.
CompleteRenameLive(p, envOk) ==
    /\ passes[p].pc = "rot_rename_live"
    /\ LET err == IF envOk THEN RenameError(fs, 0, 1) ELSE "EIO"
       IN  IF err # "none" THEN Fail(p)
           ELSE /\ fs' = Renamed(fs, 0, 1)
                /\ sizeCache' = <<0>>
                /\ Continue(p, Rotated(passes[p]))
                /\ UNCHANGED appended

\* appendFile(logFile, chunk) completes; then the loop test and, when the
\* queue is empty, the finally block.
CompleteAppend(p, envOk) ==
    /\ passes[p].pc = "append"
    /\ LET rec == passes[p]
           err == IF envOk THEN AppendError(fs, 0) ELSE "EIO"
           cache == <<rec.currentSize + IncomingSize(rec.batch)>>
           dir == Appended(fs, 0, ChunkOf(rec.batch))
       IN  IF err # "none" THEN Fail(p)
           ELSE /\ fs' = dir
                /\ appended' = appended \o rec.batch
                /\ sizeCache' = cache
                /\ UNCHANGED <<mode, cfg, useConsoleFallback, console, calls,
                               lastCall, caught>>
                /\ IF LoopContinues(pending, useConsoleFallback)
                   THEN /\ passes' = [passes EXCEPT ![p] =
                                         BeginBatch(pending, cache, dir)]
                        /\ pending' = <<>>
                        /\ UNCHANGED <<flushInProgress, flushScheduled,
                                       microtasks>>
                   ELSE /\ passes' = RemoveAt(passes, p)
                        /\ flushInProgress' = FALSE
                        /\ pending' = pending
                        /\ LET again == FinallySchedules(pending,
                                            useConsoleFallback, flushScheduled)
                           IN  /\ flushScheduled' = (flushScheduled \/ again)
                               /\ microtasks' =
                                      microtasks + (IF again THEN 1 ELSE 0)

\* ------------------------------------------------------------ the program
\* Lengths of the serialized lines the callers pass (without the newline).
Lens == {1, 2}

Next ==
    \/ \E len \in Lens : Write(len) /\ UNCHANGED traceVars
    \/ \E ev \in {"plain", "circular"}, guard \in {"true", "false", "throws"} :
          Emit(ev, guard) /\ UNCHANGED traceVars
    \/ RunMicrotask /\ UNCHANGED traceVars
    \/ \E p \in DOMAIN passes : CompleteCached(p) /\ UNCHANGED traceVars
    \/ \E p \in DOMAIN passes, envOk \in BOOLEAN : CompleteStat(p, envOk) /\ UNCHANGED traceVars
    \/ \E p \in DOMAIN passes, envOk \in BOOLEAN : CompleteRotAccess(p, envOk) /\ UNCHANGED traceVars
    \/ \E p \in DOMAIN passes, envOk \in BOOLEAN : CompleteUnlinkLive(p, envOk) /\ UNCHANGED traceVars
    \/ \E p \in DOMAIN passes, envOk \in BOOLEAN : CompleteUnlinkOldest(p, envOk) /\ UNCHANGED traceVars
    \/ \E p \in DOMAIN passes, envOk \in BOOLEAN : CompleteLoopAccess(p, envOk) /\ UNCHANGED traceVars
    \/ \E p \in DOMAIN passes, envOk \in BOOLEAN : CompleteLoopRename(p, envOk) /\ UNCHANGED traceVars
    \/ \E p \in DOMAIN passes, envOk \in BOOLEAN : CompleteRenameLive(p, envOk) /\ UNCHANGED traceVars
    \/ \E p \in DOMAIN passes, envOk \in BOOLEAN : CompleteAppend(p, envOk) /\ UNCHANGED traceVars

Spec == Init /\ [][Next]_vars

\* A filesystem operation in flight completes or fails.
FsStep ==
    \E p \in DOMAIN passes :
        \/ CompleteCached(p)
        \/ \E envOk \in BOOLEAN :
              \/ CompleteStat(p, envOk)
              \/ CompleteRotAccess(p, envOk)
              \/ CompleteUnlinkLive(p, envOk)
              \/ CompleteUnlinkOldest(p, envOk)
              \/ CompleteLoopAccess(p, envOk)
              \/ CompleteLoopRename(p, envOk)
              \/ CompleteRenameLive(p, envOk)
              \/ CompleteAppend(p, envOk)

\* The event loop runs every queued microtask, and every filesystem
\* operation eventually completes or fails.
LiveConfigs == [maxSize : {0, 4}, maxBackups : {0, 2}]

LiveDirs ==
    { Dir(NoFile, NoFile, NoFile, NoFile),
      Dir(OldFile(0, 4), OldFile(1, 1), NoFile, NoFile),
      Dir(OldDir(0, 1), NoFile, NoFile, NoFile) }

LiveInit == TraceIdle /\ \E c \in LiveConfigs, dir \in LiveDirs : Created(c, dir)

LiveSpec ==
    /\ LiveInit /\ [][Next]_vars
    /\ WF_vars(RunMicrotask /\ UNCHANGED traceVars)
    /\ WF_vars(FsStep /\ UNCHANGED traceVars)

\* ------------------------------------------------------------ properties
FallbackActive == mode = "console" \/ useConsoleFallback

\* A step that is a write() reaching the writer (directly or through emit).
WriterCalled == calls' # calls /\ lastCall'.id # 0

RECURSIVE Ids(_)
Ids(s) == IF s = <<>> THEN <<>> ELSE <<Head(s).line.id>> \o Ids(Tail(s))

RECURSIVE WrittenOnly(_)
WrittenOnly(ids) ==
    IF ids = <<>> THEN <<>>
    ELSE (IF Head(ids) >= 1 THEN <<Head(ids)>> ELSE <<>>) \o WrittenOnly(Tail(ids))

Increasing(ids) == \A j, k \in DOMAIN ids : j < k => ids[j] < ids[k]

\* The log read from the highest backup down to .1 and then the live file.
LogRead ==
    fs[4].data \o fs[3].data \o fs[2].data \o fs[1].data \o fs[0].data

HasWritten(f) == \E k \in DOMAIN f.data : f.data[k].line.id >= 1

Delivered(id) ==
    \/ \E k \in DOMAIN appended : appended[k].id = id
    \/ \E k \in DOMAIN console : console[k].line.id = id

Quiescent == pending = <<>> /\ passes = <<>> /\ microtasks = 0

\* C1: every line passed to write() is eventually appended to the live file
\* or echoed to the fallback sink, and once the writes stop the pending
\* queue drains: no line stays queued, also when it arrived while a flush
\* pass was suspended.
C1_EventualDelivery ==
    /\ \A id \in 1 .. MaxCalls : (lastCall.id = id) ~> Delivered(id)
    /\ <>[]Quiescent

C1_Witness ==
    /\ mode = "fs"
    /\ Quiescent
    /\ Len(appended) >= 2
    /\ Len(console) >= 1
    /\ \A id \in 1 .. MaxCalls : Delivered(id)

\* C2: lines reach the log in write() order (backups read from the highest
\* index down to .1, then the live file), and lines echoed to the fallback
\* sink appear there in write() order, also across the entry into fallback.
C2_WriteOrder ==
    /\ Increasing(WrittenOnly(Ids(LogRead)))
    /\ Increasing(Ids(console))

C2_Witness ==
    /\ HasWritten(fs[1])
    /\ HasWritten(fs[0])
    /\ caught # <<>>
    /\ Len(console) >= 1

\* C3: write() never throws to its caller, whatever the state of the writer:
\* filesystem mode, an unusable target path, after a filesystem failure, or
\* a writer whose probe failed.
C3_WriteNeverThrows == lastCall.op = "write" => ~lastCall.threw

C3_Witness ==
    /\ lastCall.op = "write"
    /\ mode = "fs"
    /\ fs[0].kind = "dir"
    /\ useConsoleFallback

\* C4: emit() never throws to its caller, for any event, any behaviour of
\* the guard and any writer state; when the guard throws or serialization
\* fails it returns without handing a line to the writer.
C4_EmitNeverThrows ==
    [][(calls' # calls /\ lastCall'.op = "emit") =>
          /\ ~lastCall'.threw
          /\ lastCall'.arg \in {"circular", "guard-throws"} =>
                /\ lastCall'.id = 0
                /\ UNCHANGED <<pending, console, fs, microtasks,
                               flushScheduled, passes>>]_vars

C4_Witness ==
    /\ lastCall.op = "emit"
    /\ lastCall.arg = "circular"
    /\ ~lastCall.threw
    /\ Len(passes) = 1
    /\ Len(pending) = 1

\* C5: fallback mode is a one-way latch: the flag never goes back to false,
\* no filesystem operation is in flight or started once the writer is in
\* fallback mode, the files are left alone, and every later write() goes
\* directly to the fallback sink.
C5_FallbackLatch ==
    [][/\ useConsoleFallback => useConsoleFallback'
       /\ FallbackActive =>
             /\ passes = <<>> /\ passes' = <<>>
             /\ fs' = fs
             /\ pending' = pending
             /\ WriterCalled =>
                   /\ Len(console') = Len(console) + 1
                   /\ console'[Len(console')].line.id = lastCall'.id
                   /\ console'[Len(console')].tag = Prefix]_vars

C5_Witness ==
    /\ useConsoleFallback
    /\ caught # <<>>
    /\ lastCall.id # 0
    /\ Len(console) > Len(caught[1].batch) + Len(caught[1].queue)
    /\ console[Len(console)].line.id = lastCall.id

\* C6: when a filesystem operation of a flush pass fails, the writer enters
\* fallback mode and echoes, each with the configured prefix and in enqueue
\* order, every line of the failed batch and then every line still pending;
\* the queue is then empty.
C6_FailureEchoesAll ==
    [][(caught = <<>> /\ caught' # <<>>) =>
          /\ useConsoleFallback'
          /\ \E p \in DOMAIN passes :
                /\ caught'[1].batch = passes[p].batch
                /\ console' = console \o EchoAll(passes[p].batch \o pending)
          /\ caught'[1].queue = pending
          /\ \A k \in DOMAIN console' : console'[k].tag = Prefix
          /\ Ids(console') = Ids(console) \o
                [k \in DOMAIN (caught'[1].batch \o pending) |->
                    (caught'[1].batch \o pending)[k].id]
          /\ pending' = <<>>]_vars

C6_Witness ==
    /\ caught # <<>>
    /\ Len(caught[1].batch) >= 1
    /\ Len(caught[1].queue) >= 1
    /\ Len(console) = Len(caught[1].batch) + Len(caught[1].queue)
    /\ pending = <<>>

\* C7: at most one flush pass is in progress at any time.
C7_SinglePass == Len(passes) <= 1

C7_Witness ==
    /\ Len(passes) = 1
    /\ passes[1].pc = "rot_loop_rename"
    /\ Len(pending) >= 1
    /\ flushInProgress

\* C8: in filesystem mode write() touches no file: it appends the line to
\* the pending queue and schedules a flush; the live file, the backups and
\* the cached size are as they were when it returns.
C8_WriteOnlyEnqueues ==
    [][(WriterCalled /\ ~FallbackActive) =>
          /\ fs' = fs
          /\ sizeCache' = sizeCache
          /\ appended' = appended
          /\ passes' = passes
          /\ console' = console
          /\ Len(pending') = Len(pending) + 1
          /\ pending'[Len(pending')].id = lastCall'.id
          /\ SubSeq(pending', 1, Len(pending)) = pending
          /\ (flushScheduled' \/ flushInProgress')]_vars

C8_Witness ==
    /\ lastCall.op = "write"
    /\ ~FallbackActive
    /\ Len(pending) >= 1
    /\ pending[Len(pending)].id = lastCall.id
    /\ fs[0].kind = "file"
    /\ sizeCache # <<>>
    /\ flushScheduled

\* A step in which pass p completes the append of its batch.
AppendDone(p) ==
    /\ passes[p].pc = "append"
    /\ appended' = appended \o passes[p].batch

\* The claim's case: rotation enabled with backups, and the live file's size
\* (dir[0] before the flush) plus the batch exceeds maxSize.
OverBudget(rec) ==
    /\ cfg.maxSize > 0
    /\ cfg.maxBackups >= 1
    /\ FileSize(rec.fs0[0]) + IncomingSize(rec.batch) > cfg.maxSize

RotatedThenAppended(rec) ==
    /\ fs'[1] = rec.fs0[0]
    /\ fs'[0] = [kind |-> "file", data |-> ChunkOf(rec.batch)]

\* C9 as stated: whenever size + incoming exceeds maxSize (maxSize > 0,
\* maxBackups >= 1), after the flush .1 holds the previous live content and
\* the live file holds exactly the new lines.
C9_Original ==
    [][\A p \in DOMAIN passes :
          (AppendDone(p) /\ OverBudget(passes[p])) =>
              RotatedThenAppended(passes[p])]_vars

\* C9, amended: the same, when a live file exists before the flush.
C9_RotateBeforeAppend ==
    [][\A p \in DOMAIN passes :
          (AppendDone(p) /\ OverBudget(passes[p])
             /\ passes[p].fs0[0].kind # "none") =>
              RotatedThenAppended(passes[p])]_vars

C9_Witness ==
    /\ cfg.maxSize > 0
    /\ cfg.maxBackups >= 1
    /\ fs[1] = OldFile(0, 4)
    /\ fs[0].kind = "file"
    /\ Ids(fs[0].data) = <<1>>
    /\ appended # <<>>

\* A step in which pass p completes a rotation that shifts the chain.
RotationDone(p) ==
    /\ passes[p].pc = "rot_rename_live"
    /\ p \in DOMAIN passes'
    /\ passes'[p].pc = "append"

\* C10: a rotation with maxBackups = N >= 1 moves every existing backup .i
\* (1 <= i < N) to .(i+1), discards the old .N and makes the live file .1;
\* nothing else is lost or overwritten.
C10_ChainShift ==
    [][\A p \in DOMAIN passes :
          RotationDone(p) =>
              LET old == passes[p].fs0
                  N == cfg.maxBackups
              IN  /\ N >= 1
                  /\ fs'[0] = NoFile
                  /\ fs'[1] = old[0]
                  /\ \A i \in 1 .. (N - 1) :
                        old[i].kind # "none" => fs'[i + 1] = old[i]
                  /\ \A i \in 0 .. (N - 1) :
                        old[i].kind # "none" =>
                            \E j \in Paths : fs'[j] = old[i]
                  /\ \A j \in Paths : j > N => fs'[j] = old[j]]_vars

C10_Witness ==
    /\ cfg.maxBackups = 3
    /\ Len(passes) = 1
    /\ passes[1].pc = "append"
    /\ fs[0] = NoFile
    /\ fs[1] = OldFile(0, 4)
    /\ fs[2] = OldFile(1, 1)
    /\ fs[3] = OldFile(2, 1)

\* No backup file beyond index maxBackups in the directory dir.
ChainBounded(dir) ==
    \A k \in Paths : (k >= 1 /\ k > cfg.maxBackups) => dir[k] = NoFile

\* C11: the backup chain is bounded: from a directory with no backup beyond
\* index maxBackups, no step of the writer creates a file .k with
\* k > maxBackups.
C11_ChainBounded == [][ChainBounded(fs) => ChainBounded(fs')]_vars

C11_Witness ==
    /\ cfg.maxBackups = 1
    /\ ChainBounded(fs)
    /\ HasWritten(fs[1])
    /\ HasWritten(fs[0])

\* A step in which pass p appends its batch after a rotation of an existing
\* live file was due.
AppendAfterRotation(p) ==
    /\ AppendDone(p)
    /\ cfg.maxSize > 0
    /\ passes[p].fs0[0].kind # "none"
    /\ FileSize(passes[p].fs0[0]) + IncomingSize(passes[p].batch) > cfg.maxSize

\* C12: with maxBackups <= 0 a rotation deletes the live file outright, no
\* step ever creates a backup file, and the batch that triggered the
\* rotation is the only content of the recreated live file.
C12_NoBackupsKept ==
    [][cfg.maxBackups <= 0 =>
          /\ \A k \in Paths : k >= 1 => fs'[k] = fs[k]
          /\ \A p \in DOMAIN passes :
                /\ passes[p].pc \notin {"rot_unlink_oldest", "rot_loop_access",
                                        "rot_loop_rename", "rot_rename_live"}
                /\ (passes[p].pc = "rot_unlink_live" /\ p \in DOMAIN passes'
                      /\ passes'[p].pc = "append") => fs'[0] = NoFile
                /\ AppendAfterRotation(p) =>
                      fs'[0] = [kind |-> "file",
                                data |-> ChunkOf(passes[p].batch)]]_vars

C12_Witness ==
    /\ cfg.maxBackups <= 0
    /\ cfg.maxSize > 0
    /\ fs[1] = NoFile
    /\ fs[0].kind = "file"
    /\ Ids(fs[0].data) = <<3>>
    /\ Ids([k \in DOMAIN appended |-> [line |-> appended[k]]]) = <<1, 2, 3>>

\* C13: with maxSize <= 0 rotation is disabled: no step renames or deletes
\* the live file or creates a backup, whatever the size of the file; a
\* flushed batch is appended to the live file as it is.
C13_RotationDisabled ==
    [][cfg.maxSize <= 0 =>
          /\ \A k \in Paths : k >= 1 => fs'[k] = fs[k]
          /\ \A p \in DOMAIN passes : passes[p].pc \in {"stat", "cached", "append"}
          /\ \/ fs'[0] = fs[0]
             \/ \E p \in DOMAIN passes :
                   /\ AppendDone(p)
                   /\ fs[0].kind # "dir"
                   /\ fs'[0] = [kind |-> "file",
                                data |-> fs[0].data \o ChunkOf(passes[p].batch)]]_vars

C13_Witness ==
    /\ cfg.maxSize <= 0
    /\ fs[0].kind = "file"
    /\ Ids(fs[0].data) = <<0, 1, 2>>
    /\ FileSize(fs[0]) >= 10
    /\ sizeCache = <<FileSize(fs[0])>>

\* The line a call handed to the writer, wherever it is now.
Handed(queue, sink, id) ==
    {queue[k] : k \in {j \in DOMAIN queue : queue[j].id = id}}
    \cup {sink[k].line : k \in {j \in DOMAIN sink : sink[j].line.id = id}}

\* C14: emit() asks the isEnabled guard on every call: an emit whose guard
\* answers false hands nothing to the writer (nothing queued, no file
\* touched, nothing echoed), and an emit of a serializable event whose guard
\* answers true right after a disabled one is handed to the writer, with the
\* timestamp injected.
C14_GuardEveryCall ==
    [][(calls' # calls /\ lastCall'.op = "emit") =>
          /\ lastCall'.arg = "disabled" =>
                /\ lastCall'.id = 0
                /\ UNCHANGED <<pending, console, fs, microtasks,
                               flushScheduled, passes, sizeCache>>
          /\ (lastCall.arg = "disabled" /\ lastCall'.arg = "plain") =>
                /\ lastCall'.id = calls'
                /\ Handed(pending', console', calls') # {}
                /\ \A l \in Handed(pending', console', calls') : l.stamped]_vars

C14_Witness ==
    /\ lastCall.op = "emit"
    /\ lastCall.arg = "plain"
    /\ lastCall.afterDisabled
    /\ mode = "fs"
    /\ pending = <<Stringify("plain", 2)>>
    /\ fs[0] = NoFile
    /\ console = <<>>

\* ============================================================ traceparent
\* Strings are sequences of one-character strings, so that trimming,
\* lowercasing and the regular expression act on characters.

VersionLen == 2
TraceIdLen == 32
ParentIdLen == 16
FlagsLen == 2

\* Bound on the UUIDs one behaviour draws.
MaxMint == 4

Rep(c, n) == [k \in 1 .. n |-> c]

Cycle(pat, n) == [k \in 1 .. n |-> pat[((k - 1) % Len(pat)) + 1]]

\* [\da-f]
HexLower ==
    {"0", "1", "2", "3", "4", "5", "6", "7", "8", "9",
     "a", "b", "c", "d", "e", "f"}

\* What String.prototype.trim removes.
Whitespace == {" ", "\t", "\n"}

\* One character of String.prototype.toLowerCase.
LowerCase(c) ==
    CASE c = "A" -> "a" [] c = "B" -> "b" [] c = "C" -> "c"
      [] c = "D" -> "d" [] c = "E" -> "e" [] c = "F" -> "f"
      [] c = "G" -> "g" [] c = "X" -> "x" [] c = "Z" -> "z"
      [] OTHER -> c

ToLowerCase(s) == [k \in 1 .. Len(s) |-> LowerCase(s[k])]

RECURSIVE TrimStart(_)
TrimStart(s) ==
    IF s # <<>> /\ Head(s) \in Whitespace THEN TrimStart(Tail(s)) ELSE s

RECURSIVE TrimEnd(_)
TrimEnd(s) ==
    IF s # <<>> /\ s[Len(s)] \in Whitespace
    THEN TrimEnd(SubSeq(s, 1, Len(s) - 1))
    ELSE s

Trim(s) == TrimEnd(TrimStart(s))

ALL_ZEROS_32 == Rep("0", TraceIdLen)

ALL_ZEROS_16 == Rep("0", ParentIdLen)

\* Where each capture group of TRACEPARENT_RE starts.
GroupStart ==
    <<1,
      VersionLen + 2,
      VersionLen + TraceIdLen + 3,
      VersionLen + TraceIdLen + ParentIdLen + 4>>

GroupLen == <<VersionLen, TraceIdLen, ParentIdLen, FlagsLen>>

Group(s, g) == SubSeq(s, GroupStart[g], GroupStart[g] + GroupLen[g] - 1)

\* /^([\da-f]{2})-([\da-f]{32})-([\da-f]{16})-([\da-f]{2})$/ matches s
TRACEPARENT_RE(s) ==
    /\ Len(s) = GroupStart[4] + FlagsLen - 1
    /\ \A k \in 1 .. Len(s) :
          IF k + 1 \in {GroupStart[2], GroupStart[3], GroupStart[4]}
          THEN s[k] = "-"
          ELSE s[k] \in HexLower

ZeroCheckSkipped(traceId, parentId) == FALSE

\* traceId === ALL_ZEROS_32 || parentId === ALL_ZEROS_16
ZeroIds(traceId, parentId) ==
    traceId = ALL_ZEROS_32 \/ parentId = ALL_ZEROS_16

\* parseTraceparent(header): <<>> is null.
ParseTraceparent(header) ==
    IF ~header.present \/ header.text = <<>> THEN <<>>
    ELSE LET s == ToLowerCase(Trim(header.text)) IN
         IF ~TRACEPARENT_RE(s) THEN <<>>
         ELSE IF ZeroIds(Group(s, 2), Group(s, 3)) THEN <<>>
         ELSE <<[version |-> Group(s, 1), traceId |-> Group(s, 2),
                 parentId |-> Group(s, 3), traceFlags |-> Group(s, 4)]>>

FormatTraceparentSwapped(traceId, parentId, flags) ==
    <<"0", "0", "-">> \o parentId \o <<"-">> \o traceId \o <<"-">>
        \o (IF flags = <<>> THEN <<"0", "1">> ELSE flags[1])

\* formatTraceparent(traceId, parentId, flags = '01'); flags is <<>> when the
\* caller leaves it out.
FormatTraceparent(traceId, parentId, flags) ==
    <<"0", "0", "-">> \o traceId \o <<"-">> \o parentId \o <<"-">>
        \o (IF flags = <<>> THEN <<"0", "1">> ELSE flags[1])

\* The hex digits that tell one drawn UUID from the next.
UuidFill == <<"1", "2", "3", "5", "6", "7", "9", "c", "d", "e">>

\* The n-th randomUUID() of the process with its dashes removed: a version 4
\* UUID, whose 13th hex digit is 4 and whose 17th is the variant.  The random
\* digits are modelled as fresh: no two draws agree, and no draw agrees with
\* an id that arrives from outside.
Uuid(n) ==
    [k \in 1 .. TraceIdLen |->
        IF k = 13 THEN "4" ELSE IF k = 17 THEN "8"
        ELSE UuidFill[((n - 1) % Len(UuidFill)) + 1]]

GenerateTraceId(n) == Uuid(n)

GenerateSpanId(n) == SubSeq(Uuid(n), 1, ParentIdLen)

\* TRACE_FLAGS_RE = /^[\da-f]{2}$/
TRACE_FLAGS_RE(s) == Len(s) = FlagsLen /\ \A k \in 1 .. Len(s) : s[k] \in HexLower

NormalizeTraceFlagsDefaultOff(traceFlags) ==
    IF traceFlags = <<>> \/ traceFlags[1] = <<>> THEN <<"0", "0">>
    ELSE IF TRACE_FLAGS_RE(ToLowerCase(traceFlags[1]))
         THEN ToLowerCase(traceFlags[1])
         ELSE <<"0", "0">>

\* normalizeTraceFlags(traceFlags); traceFlags is <<>> when undefined.
NormalizeTraceFlags(traceFlags) ==
    IF traceFlags = <<>> \/ traceFlags[1] = <<>> THEN <<"0", "1">>
    ELSE IF TRACE_FLAGS_RE(ToLowerCase(traceFlags[1]))
         THEN ToLowerCase(traceFlags[1])
         ELSE <<"0", "1">>

NoOptions == [traceId |-> <<>>, parentSpanId |-> <<>>, traceFlags |-> <<>>]

StartSpanAdoptsParent(options, n) ==
    LET m == IF options.traceId = <<>> THEN n + 1 ELSE n IN
    [ctx |-> [traceId |-> IF options.traceId = <<>>
                          THEN GenerateTraceId(n + 1)
                          ELSE options.traceId[1],
              spanId |-> IF options.parentSpanId = <<>>
                         THEN GenerateSpanId(m + 1)
                         ELSE options.parentSpanId[1],
              parentSpanId |-> options.parentSpanId,
              traceFlags |-> NormalizeTraceFlags(options.traceFlags)],
     minted |-> m + 1]

\* startSpan(options) when n UUIDs have been drawn: the context, and how
\* many UUIDs have been drawn afterwards.
StartSpan(options, n) ==
    LET m == IF options.traceId = <<>> THEN n + 1 ELSE n IN
    [ctx |-> [traceId |-> IF options.traceId = <<>>
                          THEN GenerateTraceId(n + 1)
                          ELSE options.traceId[1],
              spanId |-> GenerateSpanId(m + 1),
              parentSpanId |-> options.parentSpanId,
              traceFlags |-> NormalizeTraceFlags(options.traceFlags)],
     minted |-> m + 1]

\* { traceId: parsed?.traceId, parentSpanId: parsed?.parentId,
\*   traceFlags: parsed?.traceFlags }
OptionsOf(p) ==
    IF p = <<>> THEN NoOptions
    ELSE [traceId |-> <<p[1].traceId>>,
          parentSpanId |-> <<p[1].parentId>>,
          traceFlags |-> <<p[1].traceFlags>>]

\* startSpanFromTraceparent(header)
StartSpanFromTraceparent(header, n) ==
    StartSpan(OptionsOf(ParseTraceparent(header)), n)

\* ------------------------------------------------- traceparent operations
writerVars ==
    <<mode, cfg, fs, useConsoleFallback, flushScheduled, flushInProgress,
      sizeCache, pending, microtasks, passes, console, calls, lastCall,
      appended, caught>>

UpperCase(c) ==
    CASE c = "a" -> "A" [] c = "b" -> "B" [] c = "c" -> "C"
      [] c = "d" -> "D" [] c = "e" -> "E" [] c = "f" -> "F"
      [] c = "g" -> "G" [] c = "x" -> "X" [] c = "z" -> "Z"
      [] OTHER -> c

ToUpperCase(s) == [k \in 1 .. Len(s) |-> UpperCase(s[k])]

Join(v, t, p, f) == v \o <<"-">> \o t \o <<"-">> \o p \o <<"-">> \o f

\* The headers of the parser's tests, segment by segment.
Versions == {<<"0", "0">>, <<"f", "f">>, <<"0", "1">>, <<"x", "x">>, <<"0">>}

SampleTraceId == Cycle(<<"4", "b", "f", "9">>, TraceIdLen)

TraceIds ==
    {SampleTraceId, Rep("a", TraceIdLen), ALL_ZEROS_32,
     Rep("a", TraceIdLen - 1), Rep("a", TraceIdLen + 1),
     [Rep("a", TraceIdLen) EXCEPT ![7] = "g"]}

SampleParentId == Cycle(<<"0", "0", "f", "0", "6", "7", "a", "a">>, ParentIdLen)

ParentIds ==
    {SampleParentId, ALL_ZEROS_16, Rep("b", ParentIdLen - 1),
     [Rep("b", ParentIdLen) EXCEPT ![ParentIdLen] = "z"]}

FlagSet == {<<"0", "1">>, <<"0", "0">>, <<"a", "b">>, <<"1">>, <<"z", "z">>}

Decorations == {"asis", "padded", "upper"}

Decorate(d, s) ==
    CASE d = "padded" -> <<" ", "\t">> \o s \o <<"\n", " ">>
      [] d = "upper" -> ToUpperCase(s)
      [] OTHER -> s

Assembled ==
    {[present |-> TRUE, text |-> Decorate(d, Join(v, t, p, f)),
      parts |-> <<v, t, p, f>>, deco |-> d] :
        v \in Versions, t \in TraceIds, p \in ParentIds, f \in FlagSet,
        d \in Decorations}

Garbage(text) == [present |-> TRUE, text |-> text, parts |-> <<>>, deco |-> "asis"]

\* Absent, empty, blank, not a traceparent at all, dashes missing, a fifth
\* segment, whitespace inside.
Oddities ==
    {NoHeader,
     Garbage(<<>>),
     Garbage(<<" ", " ">>),
     Garbage(<<"n", "o", "t", "-", "a", "-", "t", "p">>),
     Garbage(<<"0", "0">> \o SampleTraceId \o SampleParentId \o <<"0", "1">>),
     Garbage(Join(<<"0", "0">>, SampleTraceId, SampleParentId, <<"0", "1">>)
                \o <<"-", "0", "0">>),
     Garbage(<<"0", "0", "-">> \o SampleTraceId \o <<" ", "-">>
                \o SampleParentId \o <<"-", "0", "1">>)}

Headers == Assembled \cup Oddities

\* The ids handed to formatTraceparent; flags is <<>> when left out.
FormatInputs ==
    {[traceId |-> t, parentId |-> s, flags |-> f] :
        t \in TraceIds \cup {Rep("A", TraceIdLen)}, s \in ParentIds,
        f \in {<<>>} \cup {<<x>> : x \in FlagSet}}

\* parseTraceparent(hdr)
ParseHeader ==
    /\ fmtIn = <<>>
    /\ parsed' = ParseTraceparent(hdr)
    /\ span' = <<>>
    /\ traceOp' = "parse"
    /\ UNCHANGED <<hdr, fmtIn, minted, hopVars, writerVars>>

\* startSpanFromTraceparent(hdr)
StartFromHeader ==
    /\ fmtIn = <<>>
    /\ minted + 2 <= MaxMint
    /\ LET r == StartSpanFromTraceparent(hdr, minted) IN
          /\ span' = <<r.ctx>>
          /\ minted' = r.minted
    /\ parsed' = ParseTraceparent(hdr)
    /\ traceOp' = "start"
    /\ UNCHANGED <<hdr, fmtIn, hopVars, writerVars>>

\* parseTraceparent(formatTraceparent(traceId, parentId, flags))
FormatAndParse ==
    /\ fmtIn # <<>>
    /\ hdr' = Garbage(FormatTraceparent(fmtIn[1].traceId, fmtIn[1].parentId,
                                        fmtIn[1].flags))
    /\ parsed' = ParseTraceparent(hdr')
    /\ span' = <<>>
    /\ traceOp' = "roundtrip"
    /\ UNCHANGED <<fmtIn, minted, hopVars, writerVars>>

\* One header, or one triple of ids, is the input of a behaviour.
TraceInit ==
    /\ Created([maxSize |-> 0, maxBackups |-> 0], Dir(NoFile, NoFile, NoFile, NoFile))
    /\ mode = "fs"
    /\ \/ hdr \in Headers /\ fmtIn = <<>>
       \/ hdr = NoHeader /\ fmtIn \in {<<x>> : x \in FormatInputs}
    /\ parsed = <<>>
    /\ span = <<>>
    /\ minted = 0
    /\ traceOp = "none"
    /\ hop = NoHop
    /\ events = <<>>
    /\ AdapterIdle

TraceNext ==
    \/ ParseHeader /\ UNCHANGED adapterVars
    \/ StartFromHeader /\ UNCHANGED adapterVars
    \/ FormatAndParse /\ UNCHANGED adapterVars

TraceSpec == TraceInit /\ [][TraceNext]_vars

\* ------------------------------------------------- traceparent properties
IsHex(s, n) == Len(s) = n /\ \A k \in 1 .. Len(s) : s[k] \in HexLower

WellTraceId(t) == IsHex(t, 32) /\ \E k \in 1 .. Len(t) : t[k] # "0"

WellSpanId(p) == IsHex(p, 16) /\ \E k \in 1 .. Len(p) : p[k] # "0"

\* The four segments <<version, trace id, parent id, flags>> are well formed.
WellParts(q) ==
    /\ IsHex(q[1], 2)
    /\ WellTraceId(q[2])
    /\ WellSpanId(q[3])
    /\ IsHex(q[4], 2)

ContextOf(q) ==
    [version |-> q[1], traceId |-> q[2], parentId |-> q[3], traceFlags |-> q[4]]

\* C15: for every well-formed lowercase trace id, span id and flags,
\* parseTraceparent(formatTraceparent(traceId, spanId, flags)) is the context
\* {version "00", traceId, parentId: spanId, traceFlags: flags}.
C15_RoundTrip ==
    (/\ traceOp = "roundtrip"
     /\ WellTraceId(fmtIn[1].traceId)
     /\ WellSpanId(fmtIn[1].parentId)
     /\ fmtIn[1].flags # <<>>
     /\ IsHex(fmtIn[1].flags[1], 2))
    => parsed = <<ContextOf(<<<<"0", "0">>, fmtIn[1].traceId,
                             fmtIn[1].parentId, fmtIn[1].flags[1]>>)>>

C15_Witness ==
    /\ traceOp = "roundtrip"
    /\ fmtIn = <<[traceId |-> SampleTraceId, parentId |-> SampleParentId,
                  flags |-> <<<<"0", "0">>>>]>>
    /\ parsed # <<>>
    /\ parsed[1].traceFlags = <<"0", "0">>

\* C16: parseTraceparent returns null for an absent or empty header, for
\* segments of the wrong length, for non-hex characters and for an all-zero
\* trace id or parent id; what it returns is never a partial context; and a
\* header that is valid once trimmed and lowercased is accepted and comes
\* back in lowercase.
C16_StrictParse ==
    traceOp = "parse" =>
        /\ (hdr.parts = <<>> \/ ~WellParts(hdr.parts)) => parsed = <<>>
        /\ (/\ hdr.parts # <<>>
            /\ WellParts(hdr.parts)
            /\ hdr.parts[1] # <<"f", "f">>) => parsed = <<ContextOf(hdr.parts)>>
        /\ parsed # <<>> =>
              WellParts(<<parsed[1].version, parsed[1].traceId,
                          parsed[1].parentId, parsed[1].traceFlags>>)

C16_Witness ==
    /\ traceOp = "parse"
    /\ hdr.parts = <<<<"0", "0">>, ALL_ZEROS_32, SampleParentId, <<"0", "1">>>>
    /\ hdr.deco = "upper"
    /\ parsed = <<>>

\* C17: a header whose version segment is "ff" and whose other segments are
\* well formed is rejected: parseTraceparent returns null.
C17_RejectsReservedVersion ==
    (/\ traceOp = "parse"
     /\ hdr.parts # <<>>
     /\ hdr.parts[1] = <<"f", "f">>
     /\ WellParts(hdr.parts))
    => parsed = <<>>

\* C18: for every valid header 00-T-P-F, startSpanFromTraceparent returns
\* traceId T, parentSpanId P, traceFlags F and a span id drawn for this call,
\* which is neither P nor a part of T.
C18_ContinuesTrace ==
    (/\ traceOp = "start"
     /\ hdr.parts # <<>>
     /\ hdr.parts[1] = <<"0", "0">>
     /\ WellParts(hdr.parts))
    => /\ span # <<>>
       /\ span[1].traceId = hdr.parts[2]
       /\ span[1].parentSpanId = <<hdr.parts[3]>>
       /\ span[1].traceFlags = hdr.parts[4]
       /\ span[1].spanId = GenerateSpanId(minted)
       /\ span[1].spanId # hdr.parts[3]
       /\ \A k \in 1 .. TraceIdLen - ParentIdLen + 1 :
             span[1].spanId # SubSeq(hdr.parts[2], k, k + ParentIdLen - 1)

C18_Witness ==
    /\ traceOp = "start"
    /\ hdr.parts = <<<<"0", "0">>, SampleTraceId, SampleParentId, <<"0", "0">>>>
    /\ hdr.deco = "padded"
    /\ minted = 2
    /\ span # <<>>
    /\ span[1].parentSpanId = <<SampleParentId>>

\* C19: for every header that fails to parse, startSpanFromTraceparent
\* returns a fresh trace root: a trace id and a span id drawn for this call,
\* no parentSpanId, traceFlags "01", and no segment of the header in any
\* field; it returns and does not throw.
C19_FreshRoot ==
    (traceOp = "start" /\ parsed = <<>>)
    => /\ span # <<>>
       /\ span[1].traceId = GenerateTraceId(minted - 1)
       /\ span[1].spanId = GenerateSpanId(minted)
       /\ span[1].parentSpanId = <<>>
       /\ span[1].traceFlags = <<"0", "1">>
       /\ hdr.parts # <<>> =>
             /\ span[1].traceId # hdr.parts[2]
             /\ span[1].spanId # hdr.parts[3]

C19_Witness ==
    /\ traceOp = "start"
    /\ parsed = <<>>
    /\ hdr.parts = <<<<"0", "0">>, SampleTraceId, ALL_ZEROS_16, <<"0", "0">>>>
    /\ minted = 4
    /\ span # <<>>
    /\ span[1].traceFlags = <<"0", "1">>

\* ============================================== spans across the adapters
\* One traced fetch whose request is handled by the Express middleware, whose
\* handler runs one Prisma query: the scenario of tests/trace-linking.test.ts.

\* What the fetch's getTraceContext returns: nothing, or a trace context.
FetchContexts ==
    {<<>>,
     <<[traceId |-> <<Rep("a", TraceIdLen)>>,
        parentSpanId |-> <<Rep("b", ParentIdLen)>>,
        traceFlags |-> <<<<"0", "1">>>>]>>,
     <<[traceId |-> <<SampleTraceId>>,
        parentSpanId |-> <<>>,
        traceFlags |-> <<<<"0", "0">>>>]>>,
     <<[traceId |-> <<Rep("a", TraceIdLen)>>,
        parentSpanId |-> <<Rep("b", ParentIdLen)>>,
        traceFlags |-> <<>>]>>,
     <<[traceId |-> <<SampleTraceId>>,
        parentSpanId |-> <<SampleParentId>>,
        traceFlags |-> <<<<"Z", "Z">>>>]>>}

\* The traceparent header the caller put on the request itself.
CallerHeaders ==
    {NoHeader,
     Garbage(Join(<<"0", "0">>, Rep("c", TraceIdLen), Rep("d", ParentIdLen),
                  <<"0", "1">>)),
     Garbage(<<"n", "o", "t", "-", "a", "-", "t", "p">>)}

\* globalThis.location?.origin: <<>> when there is no location.
Locations == {<<>>, <<"null">>, <<"">>, <<"https://app.example.com">>}

\* The URLs fetched: absolute ones by their origin, and a relative one.
Urls ==
    {[relative |-> FALSE, origin |-> "https://app.example.com"],
     [relative |-> FALSE, origin |-> "https://api.example.com"],
     [relative |-> TRUE, origin |-> ""]}

\* propagateTo: <<>> when the option is left out, else what it returns.
Predicates == {<<>>, <<TRUE>>, <<FALSE>>}

Hops ==
    {[pc |-> "call", ctx |-> c, propagateTo |-> a, location |-> l, url |-> u, callerHeader |-> h,
      seeded |-> g, queryOk |-> q, outbound |-> NoHeader, untouched |-> TRUE,
      fetchSpan |-> <<>>, reqSpan |-> <<>>, traceStore |-> <<>>,
      resHeader |-> NoHeader] :
        c \in FetchContexts, a \in Predicates, l \in Locations, u \in Urls,
        h \in CallerHeaders, g \in BOOLEAN, q \in BOOLEAN}

\* The trace fields of an emitted event.
Event(kind, ctx, status) ==
    [kind |-> kind, traceId |-> ctx.traceId, spanId |-> ctx.spanId,
     parentSpanId |-> ctx.parentSpanId, status |-> status]

\* getLocationOrigin(): <<>> for undefined.
GetLocationOrigin(location) ==
    IF location = <<>> \/ location[1] = "" \/ location[1] = "null"
    THEN <<>>
    ELSE location

\* resolveUrl(url).origin
ResolveOrigin(url, location) ==
    IF ~url.relative THEN url.origin
    ELSE IF GetLocationOrigin(location) = <<>> THEN "http://localhost"
    ELSE GetLocationOrigin(location)[1]

DefaultPropagateToAnywhere(url, location) == TRUE

\* defaultPropagateTo(url)
DefaultPropagateTo(url, location) ==
    /\ GetLocationOrigin(location) # <<>>
    /\ ResolveOrigin(url, location) = GetLocationOrigin(location)[1]

\* (propagateTo ?? defaultPropagateTo)(parsedUrl)
ShouldPropagate(h) ==
    IF h.propagateTo = <<>> THEN DefaultPropagateTo(h.url, h.location)
    ELSE h.propagateTo[1]

\* injectTraceparent: headers.set("traceparent", traceparent)
InjectTraceparent(callerHeader, traceparent) == traceparent

StoreOfParent(ctx) ==
    [traceId |-> ctx.traceId,
     spanId |-> IF ctx.parentSpanId = <<>> THEN ctx.spanId
                ELSE ctx.parentSpanId[1],
     traceFlags |-> ctx.traceFlags]

\* traceStore.set(req, { traceId, spanId, traceFlags })
StoreOf(ctx) ==
    [traceId |-> ctx.traceId, spanId |-> ctx.spanId,
     traceFlags |-> ctx.traceFlags]

GetTraceContextDropsFlags(store) ==
    IF store = <<>> THEN [traceId |-> <<>>, parentSpanId |-> <<>>, traceFlags |-> <<>>]
    ELSE [traceId |-> <<store[1].traceId>>,
          parentSpanId |-> <<store[1].spanId>>,
          traceFlags |-> <<>>]

\* getTraceContext(req)._trace, as the options of the next startSpan.
GetTraceContext(store) ==
    IF store = <<>> THEN NoOptions
    ELSE [traceId |-> <<store[1].traceId>>,
          parentSpanId |-> <<store[1].spanId>>,
          traceFlags |-> <<store[1].traceFlags>>]

\* The traced fetch up to its await of baseFetch.
TracedFetch ==
    /\ hop.pc = "call"
    /\ LET r == StartSpan(IF hop.ctx = <<>> THEN NoOptions ELSE hop.ctx[1],
                          minted)
           traceparent ==
               Garbage(FormatTraceparent(r.ctx.traceId, r.ctx.spanId,
                                         <<r.ctx.traceFlags>>))
       IN /\ hop' = [hop EXCEPT
                        !.pc = "baseFetch",
                        !.fetchSpan = <<r.ctx>>,
                        !.outbound =
                            IF ShouldPropagate(hop)
                            THEN InjectTraceparent(hop.callerHeader, traceparent)
                            ELSE hop.callerHeader,
                        !.untouched = ~ShouldPropagate(hop)]
          /\ minted' = r.minted
    /\ UNCHANGED <<events, hdr, parsed, span, fmtIn, traceOp, writerVars>>

\* The Express middleware, from the request's arrival to its call of next().
ExpressTrace ==
    /\ hop.pc = "baseFetch"
    /\ LET r == StartSpanFromTraceparent(hop.outbound, minted) IN
          /\ hop' = [hop EXCEPT
                        !.pc = "handler",
                        !.reqSpan = <<r.ctx>>,
                        !.traceStore = <<StoreOf(r.ctx)>>,
                        !.resHeader =
                            Garbage(FormatTraceparent(r.ctx.traceId, r.ctx.spanId,
                                                      <<r.ctx.traceFlags>>))]
          /\ minted' = r.minted
    /\ UNCHANGED <<events, hdr, parsed, span, fmtIn, traceOp, writerVars>>

\* The Prisma extension around one query, which resolves or rejects.
PrismaQuery ==
    /\ hop.pc = "handler"
    /\ LET r == StartSpan(IF hop.seeded THEN GetTraceContext(hop.traceStore)
                          ELSE NoOptions,
                          minted)
       IN /\ events' = Append(events,
                              Event("db.query", r.ctx,
                                    IF hop.queryOk THEN "success" ELSE "error"))
          /\ minted' = r.minted
    /\ hop' = [hop EXCEPT !.pc = IF hop.queryOk THEN "queried" ELSE "rejected"]
    /\ UNCHANGED <<hdr, parsed, span, fmtIn, traceOp, writerVars>>

\* The response's "finish" event: emitOnce of the middleware.
ResponseFinish ==
    /\ hop.pc = "queried"
    /\ events' = Append(events, Event("http.request", hop.reqSpan[1], "200"))
    /\ hop' = [hop EXCEPT !.pc = "finished"]
    /\ UNCHANGED <<minted, hdr, parsed, span, fmtIn, traceOp, writerVars>>

\* baseFetch settles: the traced fetch emits external.call and returns the
\* response or rethrows.
FetchSettles ==
    /\ hop.pc \in {"finished", "rejected"}
    /\ events' = Append(events,
                        Event("external.call", hop.fetchSpan[1],
                              IF hop.pc = "finished" THEN "success" ELSE "error"))
    /\ hop' = [hop EXCEPT !.pc = "done"]
    /\ UNCHANGED <<minted, hdr, parsed, span, fmtIn, traceOp, writerVars>>

HopInit ==
    /\ Created([maxSize |-> 0, maxBackups |-> 0], Dir(NoFile, NoFile, NoFile, NoFile))
    /\ mode = "fs"
    /\ hdr = NoHeader
    /\ parsed = <<>>
    /\ span = <<>>
    /\ fmtIn = <<>>
    /\ minted = 0
    /\ traceOp = "none"
    /\ hop \in Hops
    /\ events = <<>>
    /\ AdapterIdle

HopNext ==
    \/ TracedFetch /\ UNCHANGED adapterVars
    \/ ExpressTrace /\ UNCHANGED adapterVars
    \/ PrismaQuery /\ UNCHANGED adapterVars
    \/ ResponseFinish /\ UNCHANGED adapterVars
    \/ FetchSettles /\ UNCHANGED adapterVars

HopSpec == HopInit /\ [][HopNext]_vars

EventOf(kind) == CHOOSE e \in {events[k] : k \in DOMAIN events} : e.kind = kind

Kinds == [k \in DOMAIN events |-> events[k].kind]

\* C20: when the traced fetch propagates, the middleware handles its request
\* and the handler's Prisma query is seeded from getTraceContext(req), the
\* three events emitted share one traceId, http.request has the span of
\* external.call (the span id in the injected traceparent header) as its
\* parent, and db.query has the span of http.request as its parent.
C20_SpansLink ==
    (/\ hop.pc = "done"
     /\ ShouldPropagate(hop)
     /\ hop.seeded
     /\ Len(events) = 3)
    => LET external == EventOf("external.call")
           http == EventOf("http.request")
           db == EventOf("db.query")
       IN /\ Kinds = <<"db.query", "http.request", "external.call">>
          /\ external.traceId = http.traceId
          /\ http.traceId = db.traceId
          /\ ParseTraceparent(hop.outbound) # <<>>
          /\ ParseTraceparent(hop.outbound)[1].parentId = external.spanId
          /\ http.parentSpanId = <<external.spanId>>
          /\ db.parentSpanId = <<http.spanId>>
          /\ Cardinality({external.spanId, http.spanId, db.spanId}) = 3

C20_Witness ==
    /\ hop.pc = "done"
    /\ ShouldPropagate(hop)
    /\ hop.seeded
    /\ hop.ctx # <<>>
    /\ hop.ctx[1].traceId = <<Rep("a", TraceIdLen)>>
    /\ hop.callerHeader.text # <<>>
    /\ Len(events) = 3
    /\ EventOf("db.query").traceId = Rep("a", TraceIdLen)
    /\ EventOf("external.call").parentSpanId = <<Rep("b", ParentIdLen)>>

\* ================================================== the Express middleware
\* Everything outside the adapters at rest: the writer just created, no
\* traceparent function called, no fetch under way.
ParkedBase ==
    /\ Created([maxSize |-> 0, maxBackups |-> 0], Dir(NoFile, NoFile, NoFile, NoFile))
    /\ mode = "fs"
    /\ hdr = NoHeader
    /\ parsed = <<>>
    /\ span = <<>>
    /\ fmtIn = <<>>
    /\ traceOp = "none"
    /\ hop = NoHop

parkedVars == <<writerVars, hdr, parsed, span, fmtIn, traceOp, hop>>

\* Bound on the "finish" and "close" events one response fires.
MaxResEvents == 3

ValidHeader ==
    [present |-> TRUE,
     text |-> Join(<<"0", "0">>, SampleTraceId, SampleParentId, <<"0", "1">>),
     parts |-> <<<<"0", "0">>, SampleTraceId, SampleParentId, <<"0", "1">>>>,
     deco |-> "asis"]

\* req.headers.traceparent of the requests tried.
InboundHeaders ==
    {NoHeader,
     ValidHeader,
     Garbage(<<"n", "o", "t", "-", "a", "-", "t", "p">>),
     Garbage(Join(<<"0", "0">>, ALL_ZEROS_32, SampleParentId, <<"0", "1">>))}

ExpressRequests ==
    {[pc |-> "arrive", incoming |-> h, enabled |-> e, statusCode |-> c,
      reqSpan |-> <<>>, traceStore |-> <<>>, resHeader |-> NoHeader,
      listening |-> FALSE, emitted |-> FALSE, fired |-> <<>>, got |-> <<>>] :
        h \in InboundHeaders, e \in BOOLEAN, c \in {200, 404, 500}}

\* The http.request event of a response with the given status code.
HttpRequestEvent(ctx, statusCode) ==
    [kind |-> "http.request", traceId |-> ctx.traceId, spanId |-> ctx.spanId,
     parentSpanId |-> ctx.parentSpanId, status |-> statusCode,
     error |-> IF statusCode >= 500 THEN <<<<"HTTP", statusCode>>>> ELSE <<>>]

AlreadyEmittedIgnored(emitted) == FALSE

\* if (emitted) return
AlreadyEmitted(emitted) == emitted

\* createExpressTrace(options)(req, res, next)
ExpressMiddleware ==
    /\ express.pc = "arrive"
    /\ IF ~express.enabled
       THEN /\ express' = [express EXCEPT !.pc = "next"]
            /\ UNCHANGED minted
       ELSE LET r == StartSpanFromTraceparent(express.incoming, minted) IN
            /\ express' = [express EXCEPT
                              !.pc = "next",
                              !.reqSpan = <<r.ctx>>,
                              !.traceStore = <<StoreOf(r.ctx)>>,
                              !.resHeader =
                                  Garbage(FormatTraceparent(r.ctx.traceId,
                                                            r.ctx.spanId,
                                                            <<r.ctx.traceFlags>>)),
                              !.listening = TRUE]
            /\ minted' = r.minted
    /\ UNCHANGED <<events, parkedVars, fastify, browser, extract, wrapped>>

\* The response fires "finish" or "close": emitOnce runs if it was registered.
ResponseEvent(ev) ==
    /\ express.pc = "next"
    /\ Len(express.fired) < MaxResEvents
    /\ IF express.listening /\ ~AlreadyEmitted(express.emitted)
       THEN /\ events' = Append(events,
                                HttpRequestEvent(express.reqSpan[1],
                                                 express.statusCode))
            /\ express' = [express EXCEPT !.emitted = TRUE,
                                          !.fired = Append(@, ev)]
       ELSE /\ express' = [express EXCEPT !.fired = Append(@, ev)]
            /\ UNCHANGED events
    /\ UNCHANGED <<minted, parkedVars, fastify, browser, extract, wrapped>>

\* getTraceContext(req), before, during or after the request.
GetContext ==
    /\ express.pc \in {"arrive", "next"}
    /\ express' = [express EXCEPT
                      !.got = <<[at |-> express.pc,
                                 result |-> GetTraceContext(express.traceStore)]>>]
    /\ UNCHANGED <<minted, events, parkedVars, fastify, browser, extract, wrapped>>

ExpressInit ==
    /\ ParkedBase
    /\ AdapterIdleBut("express")
    /\ express \in ExpressRequests
    /\ minted = 0
    /\ events = <<>>

ExpressNext ==
    \/ ExpressMiddleware
    \/ \E ev \in {"finish", "close"} : ResponseEvent(ev)
    \/ GetContext

ExpressSpec == ExpressInit /\ [][ExpressNext]_vars

\* C21: whatever "finish" and "close" events one response fires, in any
\* order and number, at most one http.request event is emitted, none before
\* the first of them fires, and exactly one once any has fired on a request
\* the middleware traces.
C21_EmitOnce ==
    express.pc # "none" =>
        /\ Len(events) <= 1
        /\ express.fired = <<>> => events = <<>>
        /\ (express.enabled /\ express.fired # <<>>) =>
              /\ Len(events) = 1
              /\ events[1].kind = "http.request"
              /\ events[1].spanId = express.reqSpan[1].spanId

C21_Witness ==
    /\ express.pc = "next"
    /\ express.enabled
    /\ express.fired = <<"close", "finish", "close">>
    /\ Len(events) = 1

\* C26: for a request the middleware traced, getTraceContext(req) returns
\* the request's traceId and traceFlags with parentSpanId equal to the
\* request's own spanId, which is the span id of the response traceparent and
\* of the http.request event, whenever it is called; for a request the
\* middleware has not traced it returns {}.
C26_AccessorLinks ==
    (express.pc # "none" /\ express.got # <<>>) =>
        LET g == express.got[1] IN
        IF g.at = "next" /\ express.enabled
        THEN /\ g.result =
                   [traceId |-> <<express.reqSpan[1].traceId>>,
                    parentSpanId |-> <<express.reqSpan[1].spanId>>,
                    traceFlags |-> <<express.reqSpan[1].traceFlags>>]
             /\ ParseTraceparent(express.resHeader) # <<>>
             /\ <<ParseTraceparent(express.resHeader)[1].parentId>>
                    = g.result.parentSpanId
             /\ events # <<>> => <<events[1].spanId>> = g.result.parentSpanId
        ELSE g.result = NoOptions

C26_Witness ==
    /\ express.pc = "next"
    /\ express.enabled
    /\ express.incoming = ValidHeader
    /\ express.fired = <<"finish">>
    /\ events # <<>>
    /\ express.got # <<>>
    /\ express.got[1].at = "next"
    /\ express.got[1].result.traceId = <<SampleTraceId>>

\* ==================================== wrappers of instrumented operations
\* One call through the traced fetch, the Prisma extension, a Next route
\* handler, a Next server action or an Inngest function run.

MAX_ERROR_LABEL_LENGTH == 80

DEFAULT_ERROR_LABEL == <<"E", "r", "r", "o", "r">>

\* toSafeErrorLabel(err)
ToSafeErrorLabel(err) ==
    IF ~err.isError THEN DEFAULT_ERROR_LABEL
    ELSE LET name == Trim(err.name) IN
         IF name = <<>> THEN DEFAULT_ERROR_LABEL
         ELSE SubSeq(name, 1,
                     IF Len(name) < MAX_ERROR_LABEL_LENGTH
                     THEN Len(name) ELSE MAX_ERROR_LABEL_LENGTH)

\* (result.error as Error)?.message ?? String(result.error)
MessageOf(err) == err.message

\* The error field the Inngest middleware gives job.end.
JobErrorField(err) == MessageOf(err)

Messages == {<<"b", "r", "o", "k", "e">>, <<"p", "w", "=", "1", "2", "3">>}

ErrorNames ==
    {<<"E", "r", "r", "o", "r">>,
     <<"T", "y", "p", "e", "E", "r", "r", "o", "r">>,
     <<" ", "A", "b", "o", "r", "t", "\t">>,
     <<" ", " ">>,
     <<>>,
     Rep("N", MAX_ERROR_LABEL_LENGTH + 1)}

\* What an operation can throw: Error objects, and values that are no Error
\* (a thrown string, whose text is its message).
Thrown ==
    {[isError |-> TRUE, name |-> n, message |-> m] :
        n \in ErrorNames, m \in Messages}
    \cup {[isError |-> FALSE, name |-> <<>>, message |-> m] : m \in Messages}

\* The error a throwing option callback raises.
HookError ==
    [isError |-> TRUE, name |-> <<"H", "o", "o", "k">>, message |-> <<"h">>]

\* The error a throwing telemetry.emit would raise.
EmitError ==
    [isError |-> TRUE, name |-> <<"E", "m", "i", "t">>, message |-> <<"e">>]

HasIsEnabled(wrapper) == wrapper \in {"fetch", "prisma", "route", "action"}

\* The wrappers that return a promise whatever the operation does.
IsAsync(wrapper) == wrapper \in {"fetch", "prisma", "action"}

Failed(op) == op \in {"throws", "rejects"}

\* How the outcome of the operation reaches the caller of the wrapper.
HowOf(wrapper, op) ==
    IF IsAsync(wrapper)
    THEN (IF Failed(op) THEN "rejects" ELSE "resolves")
    ELSE op

\* The calls tried.  ctxHook is the getTraceContext option (or the _trace of
\* the job's event data), respHook the onResponseTraceparent option on a
\* response that carries a traceparent header.
WrappedCalls ==
    {[pc |-> "call", wrapper |-> w, enabled |-> e, op |-> o, err |-> x,
      emitFails |-> f, ctxHook |-> c, respHook |-> r, traced |-> FALSE,
      invoked |-> 0, callSpan |-> <<>>, delivered |-> <<>>] :
        w \in {"fetch", "prisma", "route", "action", "job"},
        e \in BOOLEAN,
        o \in {"returns", "throws", "resolves", "rejects"},
        x \in Thrown,
        f \in BOOLEAN,
        c \in {"none", "returns", "throws"},
        r \in {"none", "returns", "throws"}}

\* A call is tried only with the options its wrapper has.
Applicable(w) ==
    /\ w.wrapper = "job" => (w.enabled /\ w.op \in {"resolves", "rejects"}
                             /\ w.ctxHook # "throws")
    /\ w.wrapper \in {"route", "action"} => w.ctxHook = "none"
    /\ w.wrapper # "fetch" => w.respHook = "none"
    /\ ~Failed(w.op) => w.err = CHOOSE x \in Thrown : TRUE

HookContext ==
    [traceId |-> <<Rep("a", TraceIdLen)>>,
     parentSpanId |-> <<Rep("b", ParentIdLen)>>,
     traceFlags |-> <<<<"0", "1">>>>]

KindOf(wrapper) ==
    CASE wrapper = "fetch" -> "external.call"
      [] wrapper = "prisma" -> "db.query"
      [] wrapper = "job" -> "job.end"
      [] OTHER -> "http.request"

\* The event a wrapper emits for an operation that succeeded.
SuccessEvent(w) ==
    [kind |-> KindOf(w.wrapper), traceId |-> w.callSpan[1].traceId,
     spanId |-> w.callSpan[1].spanId,
     status |-> IF w.wrapper \in {"route", "action"} THEN "200" ELSE "success",
     error |-> <<>>]

\* The event a wrapper emits from its catch block for the error e.
ErrorEvent(w, e) ==
    [kind |-> KindOf(w.wrapper), traceId |-> w.callSpan[1].traceId,
     spanId |-> w.callSpan[1].spanId,
     status |-> IF w.wrapper \in {"route", "action"} THEN "500" ELSE "error",
     error |-> CASE w.wrapper = "fetch" -> <<>>
                 [] w.wrapper = "job" -> <<JobErrorField(e)>>
                 [] OTHER -> <<ToSafeErrorLabel(e)>>]

Outcome(how, ok, e) == [how |-> how, ok |-> ok, err |-> IF ok THEN <<>> ELSE <<e>>]

FailHow(wrapper, op) ==
    IF IsAsync(wrapper) \/ op \in {"resolves", "rejects"} THEN "rejects"
    ELSE "throws"

CatchReplaces(w, e) ==
    [emitted |-> <<ErrorEvent(w, e)>>,
     delivered |-> Outcome(FailHow(w.wrapper, w.op), FALSE, EmitError)]

\* catch (err) { telemetry.emit({... status: "error" ...}); throw err }
Catch(w, e) ==
    [emitted |-> <<ErrorEvent(w, e)>>,
     delivered |-> Outcome(FailHow(w.wrapper, w.op), FALSE,
                           IF EmitThrew(w.emitFails) THEN EmitError ELSE e)]

\* The wrapper's code after the operation has settled, tracing enabled.
Settle(w) ==
    IF Failed(w.op) THEN Catch(w, w.err)
    ELSE IF w.respHook = "throws"
    THEN Catch(w, HookError)
    ELSE IF EmitThrew(w.emitFails)
    THEN [emitted |-> <<SuccessEvent(w)>> \o Catch(w, EmitError).emitted,
          delivered |-> Catch(w, EmitError).delivered]
    ELSE [emitted |-> <<SuccessEvent(w)>>,
          delivered |-> Outcome(HowOf(w.wrapper, w.op), TRUE, w.err)]

\* finished({ result }) of the Inngest middleware: it returns nothing.
JobFinished(w) ==
    [emitted |-> <<IF Failed(w.op) THEN ErrorEvent(w, w.err)
                   ELSE SuccessEvent(w)>>,
     delivered |-> Outcome("resolves", TRUE, w.err)]

\* What the caller gets when the wrapper hands the call straight through.
PassThrough(w) == Outcome(HowOf(w.wrapper, w.op), ~Failed(w.op), w.err)

\* The wrapper is called: everything up to the call of the operation.
WrapperCalled ==
    /\ wrapped.pc = "call"
    /\ IF HasIsEnabled(wrapped.wrapper) /\ ~wrapped.enabled
       THEN /\ wrapped' = [wrapped EXCEPT !.pc = "running", !.invoked = 1]
            /\ UNCHANGED <<minted, events>>
       ELSE IF wrapped.ctxHook = "throws"
       THEN /\ wrapped' = [wrapped EXCEPT
                              !.pc = "done",
                              !.delivered = <<Outcome("rejects", FALSE, HookError)>>]
            /\ UNCHANGED <<minted, events>>
       ELSE LET r == StartSpan(IF wrapped.ctxHook = "returns"
                               THEN [HookContext EXCEPT
                                        !.traceFlags =
                                            IF wrapped.wrapper = "job"
                                            THEN <<>> ELSE @]
                               ELSE NoOptions,
                               minted)
            IN /\ wrapped' = [wrapped EXCEPT !.pc = "running", !.invoked = 1,
                                             !.traced = TRUE,
                                             !.callSpan = <<r.ctx>>]
               /\ minted' = r.minted
               /\ events' = IF wrapped.wrapper = "job"
                            THEN <<[kind |-> "job.start",
                                    traceId |-> r.ctx.traceId,
                                    spanId |-> r.ctx.spanId,
                                    status |-> "start", error |-> <<>>]>>
                            ELSE events
    /\ UNCHANGED <<parkedVars, express, fastify, browser, extract>>

\* The operation settles and the wrapper finishes.
OperationSettles ==
    /\ wrapped.pc = "running"
    /\ LET r == IF ~wrapped.traced
                THEN [emitted |-> <<>>, delivered |-> PassThrough(wrapped)]
                ELSE IF wrapped.wrapper = "job" THEN JobFinished(wrapped)
                ELSE Settle(wrapped)
       IN /\ events' = events \o r.emitted
          /\ wrapped' = [wrapped EXCEPT !.pc = "done",
                                        !.delivered = <<r.delivered>>]
    /\ UNCHANGED <<minted, parkedVars, express, fastify, browser, extract>>

WrapInit ==
    /\ ParkedBase
    /\ AdapterIdleBut("wrapped")
    /\ wrapped \in {w \in WrappedCalls : Applicable(w)}
    /\ minted = 0
    /\ events = <<>>

WrapNext ==
    \/ WrapperCalled
    \/ OperationSettles

WrapSpec == WrapInit /\ [][WrapNext]_vars

LastEvent == events[Len(events)]

\* C22: when the operation behind the traced fetch, the Prisma extension, a
\* Next route handler or a Next server action throws or rejects, the wrapper
\* emits exactly one event, with error status, and the caller gets the very
\* error the operation raised, by the same channel (thrown or rejected).
C22_FailurePassedThrough ==
    (/\ wrapped.pc = "done"
     /\ wrapped.wrapper \in {"fetch", "prisma", "route", "action"}
     /\ wrapped.invoked = 1
     /\ Failed(wrapped.op))
    => /\ wrapped.delivered =
             <<Outcome(FailHow(wrapped.wrapper, wrapped.op), FALSE, wrapped.err)>>
       /\ wrapped.traced =>
             /\ Len(events) = 1
             /\ events[1].kind = KindOf(wrapped.wrapper)
             /\ events[1].status =
                    (IF wrapped.wrapper \in {"route", "action"}
                     THEN "500" ELSE "error")

C22_Witness ==
    /\ wrapped.pc = "done"
    /\ wrapped.wrapper = "route"
    /\ wrapped.traced
    /\ wrapped.op = "rejects"
    /\ wrapped.emitFails
    /\ wrapped.err.name = <<"T", "y", "p", "e", "E", "r", "r", "o", "r">>
    /\ Len(events) = 1
    /\ events[1].error = <<<<"T", "y", "p", "e", "E", "r", "r", "o", "r">>>>
    /\ wrapped.delivered # <<>>
    /\ wrapped.delivered[1].how = "rejects"

\* C28: the error field of the event of a failed job run, query or handler
\* is the label toSafeErrorLabel gives the error, and does not change when
\* only the message of the error changes.
C28_SafeErrorLabels ==
    (/\ wrapped.pc = "done"
     /\ wrapped.wrapper \in {"job", "prisma", "route", "action"}
     /\ wrapped.traced
     /\ Failed(wrapped.op))
    => /\ events # <<>>
       /\ LastEvent.error = <<ToSafeErrorLabel(wrapped.err)>>
       /\ \A m \in Messages :
             LastEvent.error
                 = ErrorEvent(wrapped, [wrapped.err EXCEPT !.message = m]).error

\* C30: for the Prisma extension and the traced fetch, the caller gets what
\* the operation itself delivers and the operation is invoked exactly once,
\* whether tracing is enabled or disabled and whether or not the writer is
\* failing.
C30_HostUnaffected ==
    (wrapped.pc = "done" /\ wrapped.wrapper \in {"fetch", "prisma"})
    => /\ wrapped.invoked = 1
       /\ wrapped.delivered = <<PassThrough(wrapped)>>

\* ------------------------------------------------ propagation of the fetch
\* The location has an origin, and the URL fetched has that origin.
SameOrigin(h) ==
    /\ h.location \notin {<<>>, <<"">>, <<"null">>}
    /\ h.url.relative \/ h.url.origin = h.location[1]

\* C23: the traced fetch puts a traceparent header on the outbound request
\* exactly when the propagation predicate holds for the URL (the default
\* predicate: the URL has the origin of the current location, never without
\* a location origin); the header it puts is 00-traceId-spanId-flags of the
\* span its external.call event reports; otherwise the request reaches
\* baseFetch as the caller gave it.
C23_PropagationPolicy ==
    hop.pc \in {"baseFetch", "handler", "queried", "rejected", "finished", "done"} =>
        LET allowed == IF hop.propagateTo = <<>> THEN SameOrigin(hop)
                       ELSE hop.propagateTo[1]
        IN /\ allowed <=> ~hop.untouched
           /\ allowed =>
                 /\ hop.outbound.text =
                        Join(<<"0", "0">>, hop.fetchSpan[1].traceId,
                             hop.fetchSpan[1].spanId, hop.fetchSpan[1].traceFlags)
                 /\ hop.pc = "done" =>
                       /\ EventOf("external.call").traceId = hop.fetchSpan[1].traceId
                       /\ EventOf("external.call").spanId = hop.fetchSpan[1].spanId
           /\ ~allowed => hop.outbound = hop.callerHeader

C23_Witness ==
    /\ hop.pc = "done"
    /\ hop.propagateTo = <<>>
    /\ hop.location = <<"https://app.example.com">>
    /\ hop.url = [relative |-> FALSE, origin |-> "https://app.example.com"]
    /\ hop.callerHeader.text # <<>>
    /\ ~hop.untouched
    /\ ParseTraceparent(hop.outbound) # <<>>
    /\ ParseTraceparent(hop.outbound)[1].parentId = EventOf("external.call").spanId

\* ================================================ the browser trace context
\* createBrowserTraceContext and withSpan.  frames holds the withSpan calls
\* whose callback has not finished, the innermost last.

\* options.initialTraceparent ?? the content of the meta tag
Bootstraps ==
    {NoHeader,
     ValidHeader,
     Garbage(<<"i", "n", "v", "a", "l", "i", "d">>),
     Garbage(Join(<<"0", "0">>, Rep("a", TraceIdLen), Rep("b", ParentIdLen),
                  <<"0", "0">>))}

\* createBrowserTraceContext(options): the state it starts with, and the
\* number of UUIDs drawn afterwards.
BrowserState(bootstrap, n) ==
    LET p == ParseTraceparent(bootstrap) IN
    IF p # <<>>
    THEN [state |-> [traceId |-> p[1].traceId, parentSpanId |-> p[1].parentId,
                     traceFlags |-> NormalizeTraceFlags(<<p[1].traceFlags>>)],
          minted |-> n]
    ELSE [state |-> [traceId |-> GenerateTraceId(n + 1),
                     parentSpanId |-> GenerateSpanId(n + 2),
                     traceFlags |-> NormalizeTraceFlags(<<>>)],
          minted |-> n + 2]

\* What the last operation on the context was.
LastOp(op, how, before, arg) ==
    [op |-> op, how |-> how, before |-> before, arg |-> arg]

\* A context about to be created from the bootstrap value b, for a traced
\* fetch whose updateContextFromResponse option is u.  pairs collects the
\* (traceId, parentSpanId) pairs that were established together, finished
\* the spans whose callback has finished, fetches the fetches in flight,
\* replaced the number of setTraceContext and updateFromTraceparent calls.
BrowserBoot(b, u) ==
    [pc |-> "boot", bootstrap |-> b, updateContextFromResponse |-> u,
     state |-> [traceId |-> <<>>, parentSpanId |-> <<>>, traceFlags |-> <<>>],
     base |-> <<>>,
     frames |-> <<>>,
     fetches |-> <<>>,
     pairs |-> {},
     finished |-> {},
     replaced |-> 0,
     last |-> LastOp("none", "none", <<>>, <<>>)]

CreateBrowserContext ==
    /\ browser.pc = "boot"
    /\ LET r == BrowserState(browser.bootstrap, minted) IN
          /\ browser' = [browser EXCEPT
                            !.pc = "live",
                            !.state = r.state,
                            !.base = r.state.parentSpanId,
                            !.pairs = {<<r.state.traceId, r.state.parentSpanId>>}]
          /\ minted' = r.minted
    /\ UNCHANGED <<events, parkedVars, express, fastify, extract, wrapped>>

RestoreSkipped(state, frame) == state.parentSpanId

\* finally { state.parentSpanId = currentParent }
Restored(state, frame) == frame.currentParent

\* withSpan(name, run) up to the call of run.
WithSpanEnter ==
    /\ browser.pc = "live"
    /\ minted + 1 <= MaxMint
    /\ LET currentParent == browser.state.parentSpanId
           r == StartSpan([traceId |-> <<browser.state.traceId>>,
                           parentSpanId |-> <<currentParent>>,
                           traceFlags |-> <<browser.state.traceFlags>>],
                          minted)
       IN /\ browser' = [browser EXCEPT
                            !.state.parentSpanId = r.ctx.spanId,
                            !.frames =
                                Append(@, [currentParent |-> currentParent,
                                           before |-> browser.state.parentSpanId,
                                           span |-> r.ctx,
                                           ctx |-> [traceId |-> r.ctx.traceId,
                                                    parentSpanId |-> r.ctx.spanId,
                                                    traceFlags |-> r.ctx.traceFlags,
                                                    spanId |-> r.ctx.spanId]]),
                            !.pairs = @ \cup {<<r.ctx.traceId, r.ctx.spanId>>},
                            !.last = LastOp("enter", "none",
                                            browser.state.parentSpanId, <<>>)]
          /\ minted' = r.minted
    /\ UNCHANGED <<events, parkedVars, express, fastify, extract, wrapped>>

\* The callback of the k-th withSpan call in progress returns or throws, and
\* the finally block runs.
WithSpanExit(k, how) ==
    /\ browser.pc = "live"
    /\ k \in DOMAIN browser.frames
    /\ browser' = [browser EXCEPT
                      !.state.parentSpanId =
                          Restored(browser.state, browser.frames[k]),
                      !.frames = RemoveAt(@, k),
                      !.finished = @ \cup {browser.frames[k].span.spanId},
                      !.last = LastOp("exit", how, browser.frames[k].before,
                                      <<>>)]
    /\ UNCHANGED <<minted, events, parkedVars, express, fastify, extract, wrapped>>

BrowserInit ==
    /\ ParkedBase
    /\ AdapterIdleBut("browser")
    /\ browser \in {BrowserBoot(b, TRUE) : b \in Bootstraps}
    /\ minted = 0
    /\ events = <<>>

\* Properly nested use: only the innermost callback finishes.
BrowserNext ==
    \/ CreateBrowserContext
    \/ WithSpanEnter
    \/ \E how \in {"returns", "throws"} :
          WithSpanExit(Len(browser.frames), how)

BrowserSpec == BrowserInit /\ [][BrowserNext]_vars

\* C24: entering withSpan makes the newly minted span id the context's
\* parentSpanId and hands it to the callback as spanId and parentSpanId; when
\* the callback returns or throws, parentSpanId is again what it was before
\* the call; with properly nested calls the parentSpanId is always the span
\* of the innermost callback in progress, at any depth.
C24_StackDiscipline ==
    browser.pc = "live" =>
        /\ \A k \in DOMAIN browser.frames :
              /\ browser.frames[k].ctx.spanId = browser.frames[k].span.spanId
              /\ browser.frames[k].ctx.parentSpanId = browser.frames[k].span.spanId
              /\ browser.frames[k].span.traceId = browser.state.traceId
              /\ browser.frames[k].before # browser.frames[k].span.spanId
              /\ k > 1 => browser.frames[k].before = browser.frames[k - 1].span.spanId
        /\ browser.frames # <<>> =>
              browser.state.parentSpanId
                  = browser.frames[Len(browser.frames)].span.spanId
        /\ browser.last.op = "enter" =>
              browser.state.parentSpanId = GenerateSpanId(minted)
        /\ browser.last.op = "exit" =>
              browser.state.parentSpanId = browser.last.before

C24_Witness ==
    /\ browser.pc = "live"
    /\ browser.bootstrap = ValidHeader
    /\ Len(browser.frames) = 1
    /\ minted = 3
    /\ browser.last.op = "exit"
    /\ browser.last.how = "throws"
    /\ browser.state.parentSpanId = GenerateSpanId(1)

\* ======================================================= entity extraction
\* extractEntities(path, patterns) and extractEntitiesFromEvent(data, keys).
\* A mapping is a function from its keys; a result is <<>> for undefined and
\* <<mapping>> otherwise.

MaxSegments == 4

MaxPatterns == 2

Dashes == {9, 14, 19, 24}

\* UUID_RE = /^[\da-f]{8}-[\da-f]{4}-[\da-f]{4}-[\da-f]{4}-[\da-f]{12}$/i
UUID_RE(s) ==
    /\ Len(s) = 36
    /\ \A k \in 1 .. Len(s) :
          IF k \in Dashes THEN s[k] = "-" ELSE LowerCase(s[k]) \in HexLower

\* path.split("/")
RECURSIVE Split(_)
Split(s) ==
    IF \A k \in 1 .. Len(s) : s[k] # "/"
    THEN <<s>>
    ELSE LET i == CHOOSE k \in 1 .. Len(s) :
                     s[k] = "/" /\ \A j \in 1 .. (k - 1) : s[j] # "/"
         IN <<SubSeq(s, 1, i - 1)>> \o Split(SubSeq(s, i + 1, Len(s)))

EmptyMapping == [k \in {} |-> <<>>]

\* entities[key] = val on an object literal: the key "__proto__" names the
\* prototype accessor, whose setter ignores a string.
Assign(entities, key, val) ==
    IF key = "__proto__"
    THEN entities
    ELSE [k \in DOMAIN entities \cup {key} |->
              IF k = key THEN val ELSE entities[k]]

\* found ? entities : undefined
Found(acc) == acc.found

\* The two nested loops of extractEntities from their n-th iteration on.
RECURSIVE ScanPath(_, _, _, _)
ScanPath(segments, patterns, n, acc) ==
    IF n > (Len(segments) - 1) * Len(patterns)
    THEN acc
    ELSE LET i == ((n - 1) \div Len(patterns)) + 1
             pattern == patterns[((n - 1) % Len(patterns)) + 1]
             next == segments[i + 1]
         IN ScanPath(segments, patterns, n + 1,
                     IF /\ segments[i] = pattern.segment
                        /\ next # <<>>
                        /\ UUID_RE(next)
                     THEN [entities |-> Assign(acc.entities, pattern.key, next),
                           found |-> TRUE]
                     ELSE acc)

ExtractEntities(path, patterns) ==
    LET acc == ScanPath(Split(path), patterns, 1,
                        [entities |-> EmptyMapping, found |-> FALSE])
    IN IF Found(acc) THEN <<acc.entities>> ELSE <<>>

\* data[key]: an own property, or undefined (no member of Object.prototype
\* is a string).
Lookup(data, key) ==
    IF key \in DOMAIN data THEN data[key] ELSE [type |-> "undefined"]

\* The loop of extractEntitiesFromEvent from its n-th key on.
RECURSIVE ScanKeys(_, _, _, _)
ScanKeys(data, keys, n, acc) ==
    IF n > Len(keys)
    THEN acc
    ELSE LET val == Lookup(data, keys[n])
         IN ScanKeys(data, keys, n + 1,
                     IF val.type = "string"
                     THEN [entities |-> Assign(acc.entities, keys[n], val.v),
                           found |-> TRUE]
                     ELSE acc)

\* data is <<>> for undefined or null, <<object>> otherwise.
ExtractEntitiesFromEvent(data, keys) ==
    IF data = <<>>
    THEN <<>>
    ELSE LET acc == ScanKeys(data[1], keys, 1,
                             [entities |-> EmptyMapping, found |-> FALSE])
         IN IF Found(acc) THEN <<acc.entities>> ELSE <<>>

\* ---- the inputs

DashedUuid(fill) == [k \in 1 .. 36 |-> IF k \in Dashes THEN "-" ELSE fill]

SegUsers == <<"u", "s", "e", "r", "s">>

SegPosts == <<"p", "o", "s", "t", "s">>

Segments == {SegUsers, SegPosts, DashedUuid("1"), DashedUuid("A"), <<>>}

RECURSIVE PathOf(_)
PathOf(segs) ==
    IF segs = <<>> THEN <<>> ELSE <<"/">> \o Head(segs) \o PathOf(Tail(segs))

SeqsUpTo(S, n) == UNION {[1 .. k -> S] : k \in 0 .. n}

RequestPaths == {PathOf(segs) : segs \in SeqsUpTo(Segments, MaxSegments)}

EntityKeys == {"userId", "postId", "__proto__"}

EntityPatterns ==
    {[segment |-> SegUsers, key |-> "userId"],
     [segment |-> SegPosts, key |-> "postId"],
     [segment |-> SegPosts, key |-> "userId"],
     [segment |-> SegUsers, key |-> "__proto__"]}

PayloadValues ==
    {[type |-> "string", v |-> <<"a", "b", "c">>],
     [type |-> "string", v |-> <<>>],
     [type |-> "number", v |-> <<"4", "2">>]}

Payloads ==
    {<<>>} \cup
    {<<d>> : d \in UNION {[K -> PayloadValues] :
                             K \in SUBSET (EntityKeys \cup {"other"})}}

\* A call not yet made.
ExtractCall(fn, path, patterns, data, keys) ==
    [pc |-> "call", fn |-> fn, path |-> path, patterns |-> patterns,
     data |-> data, keys |-> keys, result |-> <<>>]

ExtractFromPath ==
    /\ extract.pc = "call"
    /\ extract.fn = "extractEntities"
    /\ extract' = [extract EXCEPT
                      !.pc = "done",
                      !.result = ExtractEntities(extract.path, extract.patterns)]
    /\ UNCHANGED <<minted, events, parkedVars, express, fastify, browser, wrapped>>

ExtractFromEvent ==
    /\ extract.pc = "call"
    /\ extract.fn = "extractEntitiesFromEvent"
    /\ extract' = [extract EXCEPT
                      !.pc = "done",
                      !.result = ExtractEntitiesFromEvent(extract.data,
                                                          extract.keys)]
    /\ UNCHANGED <<minted, events, parkedVars, express, fastify, browser, wrapped>>

ExtractInit ==
    /\ ParkedBase
    /\ AdapterIdleBut("extract")
    /\ \/ \E p \in RequestPaths, ps \in SeqsUpTo(EntityPatterns, MaxPatterns) :
             extract = ExtractCall("extractEntities", p, ps, <<>>, <<>>)
       \/ \E d \in Payloads, ks \in SeqsUpTo(EntityKeys, MaxPatterns) :
             extract = ExtractCall("extractEntitiesFromEvent", <<>>, <<>>, d, ks)
    /\ minted = 0
    /\ events = <<>>

ExtractNext == ExtractFromPath \/ ExtractFromEvent

ExtractSpec == ExtractInit /\ [][ExtractNext]_vars

\* The values a pattern list can capture from a path under one key: the
\* UUID-shaped segments right after a segment of a pattern with that key.
Captures(path, patterns, key) ==
    LET segments == Split(path) IN
    {segments[i + 1] : i \in
        {i \in 1 .. (Len(segments) - 1) :
            /\ UUID_RE(segments[i + 1])
            /\ \E n \in 1 .. Len(patterns) :
                  /\ patterns[n].key = key
                  /\ patterns[n].segment = segments[i]}}

\* C25: extractEntities and extractEntitiesFromEvent return undefined exactly
\* when nothing was extracted, and otherwise a mapping with at least one
\* entry, each value the UUID-shaped segment after its pattern's segment or
\* the string at its key; they never return an empty mapping.
C25_NeverEmptyMapping ==
    extract.pc = "done" =>
        /\ extract.result # <<EmptyMapping>>
        /\ extract.fn = "extractEntities" =>
              /\ extract.result = <<>>
                    <=> \A key \in EntityKeys :
                           Captures(extract.path, extract.patterns, key) = {}
              /\ extract.result # <<>> =>
                    \A key \in DOMAIN extract.result[1] :
                       extract.result[1][key]
                           \in Captures(extract.path, extract.patterns, key)
        /\ extract.fn = "extractEntitiesFromEvent" =>
              /\ extract.result = <<>>
                    <=> \/ extract.data = <<>>
                        \/ \A n \in 1 .. Len(extract.keys) :
                              Lookup(extract.data[1], extract.keys[n]).type
                                  # "string"
              /\ extract.result # <<>> =>
                    \A key \in DOMAIN extract.result[1] :
                       /\ \E n \in 1 .. Len(extract.keys) : extract.keys[n] = key
                       /\ Lookup(extract.data[1], key).type = "string"
                       /\ extract.result[1][key] = Lookup(extract.data[1], key).v

\* ====================================================== the Fastify plugin
\* One request through the onRequest and onResponse hooks that
\* createFastifyTrace registers.  An absent property of an event is <<>>.

\* request.headers.traceparent: a string, or an array whose first element
\* the hook takes.
FirstOf(value) ==
    IF value.isArray
    THEN IF value.items = <<>> THEN NoHeader ELSE value.items[1]
    ELSE value.items[1]

HeaderValues ==
    {[isArray |-> FALSE, items |-> <<h>>] : h \in InboundHeaders}
    \cup {[isArray |-> TRUE, items |-> <<h, ValidHeader>>] : h \in InboundHeaders}
    \cup {[isArray |-> TRUE, items |-> <<>>]}

FastifyRequests ==
    {[pc |-> "onRequest", incoming |-> h, enabled |-> e,
      statusCode |-> c, traceStore |-> <<>>, resHeader |-> NoHeader,
      got |-> <<>>] :
        h \in HeaderValues, e \in BOOLEAN, c \in {200, 404, 500}}

\* The event the onResponse hook builds from the stored trace.
FastifyRequestEvent(trace, statusCode) ==
    [kind |-> "http.request", traceId |-> trace.traceId, status |-> statusCode,
     spanId |-> <<>>, parentSpanId |-> <<>>]

\* The traceId and spanId the onRequest hook stores, and the UUIDs drawn.
FastifyTrace(incoming, n) ==
    LET p == ParseTraceparent(incoming) IN
    IF p # <<>>
    THEN [trace |-> [traceId |-> p[1].traceId, spanId |-> GenerateSpanId(n + 1)],
          minted |-> n + 1]
    ELSE [trace |-> [traceId |-> GenerateTraceId(n + 1),
                     spanId |-> GenerateSpanId(n + 2)],
          minted |-> n + 2]

OnRequest ==
    /\ fastify.pc = "onRequest"
    /\ IF ~fastify.enabled
       THEN /\ fastify' = [fastify EXCEPT !.pc = "handler"]
            /\ UNCHANGED minted
       ELSE LET r == FastifyTrace(FirstOf(fastify.incoming), minted)
            IN /\ fastify' = [fastify EXCEPT
                                 !.pc = "handler",
                                 !.traceStore = <<r.trace>>,
                                 !.resHeader =
                                     Garbage(FormatTraceparent(r.trace.traceId,
                                                               r.trace.spanId,
                                                               <<>>))]
               /\ minted' = r.minted
    /\ UNCHANGED <<events, parkedVars, express, browser, extract, wrapped>>

OnResponse ==
    /\ fastify.pc = "handler"
    /\ fastify' = [fastify EXCEPT !.pc = "done"]
    /\ IF fastify.traceStore = <<>>
       THEN UNCHANGED events
       ELSE events' = Append(events,
                             FastifyRequestEvent(fastify.traceStore[1],
                                                 fastify.statusCode))
    /\ UNCHANGED <<minted, parkedVars, express, browser, extract, wrapped>>

\* getTraceContext(request) of the Fastify adapter.
FastifyGetTraceContext(store) ==
    IF store = <<>>
    THEN <<>>
    ELSE <<[traceId |-> store[1].traceId, parentSpanId |-> store[1].spanId]>>

FastifyGetContext ==
    /\ fastify.pc \in {"onRequest", "handler", "done"}
    /\ fastify' = [fastify EXCEPT
                      !.got = <<[at |-> fastify.pc,
                                 result |->
                                     FastifyGetTraceContext(fastify.traceStore)]>>]
    /\ UNCHANGED <<minted, events, parkedVars, express, browser, extract, wrapped>>

FastifyInit ==
    /\ ParkedBase
    /\ AdapterIdleBut("fastify")
    /\ fastify \in FastifyRequests
    /\ minted = 0
    /\ events = <<>>

FastifyNext == OnRequest \/ OnResponse \/ FastifyGetContext

FastifySpec == FastifyInit /\ [][FastifyNext]_vars

\* The response traceparent of a traced request with a valid incoming
\* traceparent keeps the incoming trace id and carries a new span id.
FastifyHeaderContinues ==
    (fastify.pc \in {"handler", "done"} /\ fastify.enabled
        /\ FirstOf(fastify.incoming) = ValidHeader) =>
        LET out == ParseTraceparent(fastify.resHeader) IN
        /\ out # <<>>
        /\ out[1].traceId = SampleTraceId
        /\ out[1].parentId # SampleParentId
        /\ out[1].parentId = fastify.traceStore[1].spanId

\* C27: a request with the valid traceparent 00-T-P-01 gets a response
\* traceparent with trace id T and a newly minted span id other than P, and
\* the http.request event emitted on response has traceId T, parentSpanId P
\* and the request's own 16-hex spanId.
C27_FastifyContinuesTrace ==
    /\ FastifyHeaderContinues
    /\ (fastify.pc = "done" /\ fastify.enabled
           /\ FirstOf(fastify.incoming) = ValidHeader) =>
          /\ Len(events) = 1
          /\ events[1].kind = "http.request"
          /\ events[1].traceId = SampleTraceId
          /\ events[1].parentSpanId = <<SampleParentId>>
          /\ events[1].spanId = <<fastify.traceStore[1].spanId>>
          /\ IsHex(fastify.traceStore[1].spanId, 16)

\* ============================================ the writer of a failed probe

\* C29: a probe that fails in any of its three ways gives a writer in
\* fallback mode; such a writer stays in that mode, echoes every write()
\* within the call as the prefix and the line, queues nothing, schedules no
\* flush, and never starts or performs a filesystem operation.
C29_ProbeFailureFallback ==
    [][/\ \A importOk \in BOOLEAN, mkdirOk \in BOOLEAN, existsAfter \in BOOLEAN :
             ~(importOk /\ mkdirOk /\ existsAfter)
                 => ProbeMode(importOk, mkdirOk, existsAfter) = "console"
       /\ mode = "console" =>
             /\ mode' = "console"
             /\ fs' = fs
             /\ appended' = <<>>
             /\ pending' = <<>>
             /\ passes' = <<>>
             /\ microtasks' = 0
             /\ ~flushScheduled'
             /\ ~flushInProgress'
             /\ sizeCache' = <<>>
             /\ IF WriterCalled
                THEN /\ Len(console') = Len(console) + 1
                     /\ SubSeq(console', 1, Len(console)) = console
                     /\ console'[Len(console')].tag = Prefix
                     /\ console'[Len(console')].line.id = lastCall'.id
                     /\ ~lastCall'.threw
                ELSE console' = console]_vars

C29_Witness ==
    /\ mode = "console"
    /\ ~useConsoleFallback
    /\ Len(console) = 3
    /\ lastCall.op = "write"
    /\ console[3].line.id = lastCall.id
    /\ \E k \in DOMAIN console : console[k].line.stamped
    /\ fs[0].kind = "file"

\* ================================================ the writer, continued

\* A step in which the flush microtask starts a pass.
PassStarts == passes = <<>> /\ passes' # <<>>

\* C31: flush scheduling coalesces: at most one flush microtask is queued at
\* a time, flushScheduled says whether one is, none is queued while a pass
\* is in progress, a write() before the flush starts leaves exactly one
\* queued, and the pass the microtask starts takes every line queued so far
\* as one batch, which gets one size check and is appended by one append.
C31_FlushCoalesces ==
    [][/\ microtasks <= 1
       /\ flushScheduled <=> microtasks = 1
       /\ passes # <<>> => microtasks = 0
       /\ (WriterCalled /\ ~FallbackActive) =>
             microtasks' = (IF passes # <<>> THEN 0 ELSE 1)
       /\ PassStarts =>
             /\ pending # <<>>
             /\ passes'[1].batch = pending
             /\ passes'[1].pc \in {"stat", "cached"}
             /\ pending' = <<>>
       /\ \A p \in DOMAIN passes :
             /\ passes[p].batch # <<>>
             /\ (p \in DOMAIN passes' /\ passes'[p] # passes[p]
                   /\ passes'[p].batch = passes[p].batch) =>
                   /\ passes[p].pc \in {"stat", "cached"}
                         => passes'[p].pc \in {"rot_access", "append"}
                   /\ passes'[p].pc \notin {"stat", "cached"}
             /\ AppendDone(p) =>
                   fs'[0].data = fs[0].data \o ChunkOf(passes[p].batch)]_vars

C31_Witness ==
    /\ mode = "fs"
    /\ calls = 3
    /\ microtasks = 0
    /\ passes = <<>>
    /\ Ids(fs[0].data) = <<1, 2, 3>>
    /\ sizeCache = <<IncomingSize(appended)>>
    /\ cfg.maxSize = 4
    /\ fs[1] = OldFile(0, 5)

\* A step in which rotate() of pass p returns.
RotateReturns(p) ==
    /\ passes[p].pc \in {"rot_access", "rot_unlink_live", "rot_rename_live"}
    /\ p \in DOMAIN passes'
    /\ passes'[p].pc = "append"

\* A step in which the writer enters fallback mode.
FallbackEntered == ~useConsoleFallback /\ useConsoleFallback'

\* C32 as stated: when a rotation occurs or fallback mode is entered the
\* cached size is cleared, so that the next size read stats the live file.
C32_Original ==
    [][((\E p \in DOMAIN passes : RotateReturns(p)) \/ FallbackEntered) =>
          sizeCache' = <<>>]_vars

\* C32, amended: entering fallback mode clears the cached size; a rotation
\* sets it to 0, the size of the live file it has just removed, and the
\* append that follows counts from 0; in neither case does the size
\* remembered before the event survive it.
C32_CacheResetOnRotation ==
    [][/\ FallbackEntered => sizeCache' = <<>>
       /\ \A p \in DOMAIN passes :
             RotateReturns(p) =>
                 /\ sizeCache' = <<0>>
                 /\ fs'[0] = NoFile
                 /\ passes'[p].currentSize = 0]_vars

C32_Witness ==
    /\ useConsoleFallback
    /\ sizeCache = <<>>
    /\ cfg.maxBackups >= 1
    /\ fs[1] = OldFile(0, 5)
    /\ fs[0].kind = "file"
    /\ HasWritten(fs[0])
    /\ caught # <<>>

\* The byte size a stat of the live file would report, 0 when it is absent.
ActualSize == IF fs[0].kind = "none" THEN 0 ELSE FileSize(fs[0])

\* C33: whenever no flush pass is in progress and the cached size is
\* defined, it is the live file's actual byte size (0 when the file does not
\* exist), after any sequence of writes, rotations and appends.
C33_NoSizeDrift ==
    (passes = <<>> /\ sizeCache # <<>>) => sizeCache = <<ActualSize>>

C33_Witness ==
    /\ passes = <<>>
    /\ ~useConsoleFallback
    /\ cfg.maxBackups >= 1
    /\ HasWritten(fs[1])
    /\ HasWritten(fs[0])
    /\ sizeCache = <<ActualSize>>
    /\ pending # <<>>

\* C34: in fallback mode the pending queue is empty whenever control is back
\* with the event loop: the step that sets the latch empties the queue, and
\* no write() enqueues a line once the latch is set.
C34_NothingQueuedBehindLatch ==
    [][/\ FallbackActive => pending = <<>>
       /\ FallbackEntered => pending' = <<>>
       /\ (WriterCalled /\ FallbackActive) => pending' = <<>>]_vars

C34_Witness ==
    /\ useConsoleFallback
    /\ caught # <<>>
    /\ Len(caught[1].queue) >= 1
    /\ pending = <<>>
    /\ lastCall.id = 3
    /\ console[Len(console)].line.id = 3
    /\ Len(console) = 3

Max(a, b) == IF a >= b THEN a ELSE b

\* C35: with maxSize > 0, right after every successful append the live file
\* is no larger than the larger of maxSize and the batch just appended, and
\* the batch, oversized or not, is appended whole.
C35_SizeBoundAfterAppend ==
    [][\A p \in DOMAIN passes :
          (AppendDone(p) /\ cfg.maxSize > 0) =>
              /\ fs'[0].kind = "file"
              /\ FileSize(fs'[0])
                    <= Max(cfg.maxSize, IncomingSize(passes[p].batch))
              /\ Len(fs'[0].data) >= Len(passes[p].batch)
              /\ SubSeq(fs'[0].data,
                        Len(fs'[0].data) - Len(passes[p].batch) + 1,
                        Len(fs'[0].data)) = ChunkOf(passes[p].batch)]_vars

C35_Witness ==
    /\ cfg.maxSize > 0
    /\ fs[0].kind = "file"
    /\ Ids(fs[0].data) = <<2, 3>>
    /\ FileSize(fs[0]) > cfg.maxSize
    /\ sizeCache = <<FileSize(fs[0])>>
    /\ HasWritten(fs[1])

\* The writer created over an empty log directory.
EmptyDirInit ==
    /\ TraceIdle
    /\ \E c \in Configs : Created(c, Dir(NoFile, NoFile, NoFile, NoFile))

EmptyDirSpec == EmptyDirInit /\ [][Next]_vars

\* The lines of the log, oldest first.
LogLines == [k \in DOMAIN LogRead |-> LogRead[k].line]

IsSuffix(s, t) ==
    /\ Len(s) <= Len(t)
    /\ SubSeq(t, Len(t) - Len(s) + 1, Len(t)) = s

\* C36: from an empty log directory, the backups read from the highest index
\* down to .1 followed by the live file are at every moment a contiguous
\* suffix, in write order, of the lines the writer has appended: lines are
\* lost at the old end only, never from the middle.
C36_ContiguousHistory == IsSuffix(LogLines, appended)

C36_Witness ==
    /\ cfg.maxBackups = 1
    /\ Ids(fs[1].data) = <<2>>
    /\ Ids(fs[0].data) = <<3>>
    /\ Len(appended) = 3
    /\ passes = <<>>

\* How many times the line of call id occurs in a sequence of lines.
Times(lines, id) == Cardinality({k \in DOMAIN lines : lines[k].id = id})

ConsoleLines == [k \in DOMAIN console |-> console[k].line]

\* C37: no line is delivered twice: every line handed to the writer is
\* appended to the log at most once and echoed to the fallback sink at most
\* once, never both, and a line waiting in the queue or in a batch has been
\* neither appended nor echoed.
C37_NoDuplicateDelivery ==
    \A id \in 1 .. calls :
        /\ Times(appended, id) + Times(ConsoleLines, id) <= 1
        /\ Times(LogLines, id) <= Times(appended, id)
        /\ (Times(pending, id) > 0
              \/ \E p \in DOMAIN passes : Times(passes[p].batch, id) > 0) =>
               Times(appended, id) + Times(ConsoleLines, id) = 0

C37_Witness ==
    /\ Ids(fs[0].data) = <<1>>
    /\ Ids(console) = <<2, 3>>
    /\ caught # <<>>
    /\ caught[1].batch # <<>>
    /\ caught[1].queue # <<>>
    /\ Len(appended) = 1

\* ------------------------------------------------------------------------
\* The browser context under overlapping withSpan calls
\* ------------------------------------------------------------------------

OverlapInit == BrowserInit

\* withSpan calls started together: the callback of any call in progress may
\* be the next to finish.
OverlapNext ==
    \/ CreateBrowserContext
    \/ WithSpanEnter
    \/ \E k \in DOMAIN browser.frames, how \in {"returns", "throws"} :
          WithSpanExit(k, how)

OverlapSpec == OverlapInit /\ [][OverlapNext]_vars

\* C38: with withSpan calls whose callbacks overlap without being nested,
\* once all of them have completed the context's parentSpanId equals its
\* value before the first call, and the parentSpanId is never a span whose
\* callback has already finished.
C38_OverlapSafe ==
    browser.pc = "live" =>
        /\ browser.frames = <<>> => browser.state.parentSpanId = browser.base
        /\ browser.state.parentSpanId \notin browser.finished

\* ------------------------------------------------------------------------
\* The browser context: setTraceContext, updateFromTraceparent, traced fetch
\* ------------------------------------------------------------------------

\* The setTraceContext and updateFromTraceparent calls followed.
MaxReplaced == 1

\* The traced fetches in flight at a time.
MaxInFlight == 1

\* A trace other than the ones the page starts with.
OtherTraceId == Rep("a", TraceIdLen)

OtherParentId == Rep("b", ParentIdLen)

\* The response carries 00-T-S-F.
ValidResponse ==
    [present |-> TRUE,
     text |-> Join(<<"0", "0">>, OtherTraceId, OtherParentId, <<"0", "0">>),
     parts |-> <<<<"0", "0">>, OtherTraceId, OtherParentId, <<"0", "0">>>>,
     deco |-> "asis"]

\* The response carries a traceparent whose trace id is all zeros.
ZeroResponse ==
    [present |-> TRUE,
     text |-> Join(<<"0", "0">>, Rep("0", TraceIdLen), OtherParentId,
                   <<"0", "1">>),
     parts |-> <<<<"0", "0">>, Rep("0", TraceIdLen), OtherParentId,
                 <<"0", "1">>>>,
     deco |-> "asis"]

\* response.headers.get("traceparent"): null, empty, malformed, all zeros,
\* valid.
ResponseHeaders ==
    {NoHeader, Garbage(<<>>), Garbage(<<"i", "n", "v", "a", "l", "i", "d">>),
     ZeroResponse, ValidResponse}

\* The context handed to setTraceContext.
SetContexts ==
    {[traceId |-> Rep("c", TraceIdLen), parentSpanId |-> Rep("d", ParentIdLen),
      traceFlags |-> <<<<"0", "0">>>>]}

\* The page's origin.
PageLocation == <<"https://app.example.com">>

\* setTraceContext(context): the state afterwards.
ContextSet(context) ==
    [traceId |-> context.traceId,
     parentSpanId |-> context.parentSpanId,
     traceFlags |-> NormalizeTraceFlags(context.traceFlags)]

\* updateFromTraceparent(traceparent): what it returns and the state
\* afterwards.
ContextUpdated(state, traceparent) ==
    LET incoming == ParseTraceparent(traceparent) IN
    IF incoming = <<>> THEN [ok |-> FALSE, state |-> state]
    ELSE [ok |-> TRUE,
          state |-> [traceId |-> incoming[1].traceId,
                     parentSpanId |-> incoming[1].parentId,
                     traceFlags |->
                         NormalizeTraceFlags(<<incoming[1].traceFlags>>)]]

ContextAfterResponseKeepsParent(state, fetchSpan, responseTraceparent) ==
    IF \/ ~responseTraceparent.present
       \/ responseTraceparent.text = <<>>
       \/ ~ContextUpdated(state, responseTraceparent).ok
    THEN ContextSet([traceId |-> fetchSpan.traceId,
                     parentSpanId |-> fetchSpan.parentSpanId[1],
                     traceFlags |-> <<fetchSpan.traceFlags>>])
    ELSE ContextUpdated(state, responseTraceparent).state

\* The state after the traced fetch has looked at the response's traceparent
\* header.
ContextAfterResponse(state, fetchSpan, responseTraceparent) ==
    IF \/ ~responseTraceparent.present
       \/ responseTraceparent.text = <<>>
       \/ ~ContextUpdated(state, responseTraceparent).ok
    THEN ContextSet([traceId |-> fetchSpan.traceId,
                     parentSpanId |-> fetchSpan.spanId,
                     traceFlags |-> <<fetchSpan.traceFlags>>])
    ELSE ContextUpdated(state, responseTraceparent).state

PairOf(state) == <<state.traceId, state.parentSpanId>>

browserRest == <<events, parkedVars, express, fastify, extract, wrapped>>

SetTraceContext(context) ==
    /\ browser.pc = "live"
    /\ browser.replaced < MaxReplaced
    /\ browser' = [browser EXCEPT
                      !.state = ContextSet(context),
                      !.replaced = @ + 1,
                      !.pairs = @ \cup {PairOf(ContextSet(context))},
                      !.last = LastOp("set", "returns", <<>>, <<>>)]
    /\ UNCHANGED <<minted, browserRest>>

UpdateFromTraceparent(traceparent) ==
    /\ browser.pc = "live"
    /\ browser.replaced < MaxReplaced
    /\ LET r == ContextUpdated(browser.state, traceparent) IN
          browser' = [browser EXCEPT
                         !.state = r.state,
                         !.replaced = @ + 1,
                         !.pairs = IF r.ok THEN @ \cup {PairOf(r.state)} ELSE @,
                         !.last = LastOp("update",
                                         IF r.ok THEN "true" ELSE "false",
                                         <<>>, <<>>)]
    /\ UNCHANGED <<minted, browserRest>>

\* tracedFetch(input, init) up to the await of baseFetch.
BrowserFetchStart(url) ==
    /\ browser.pc = "live"
    /\ minted + 1 <= MaxMint
    /\ Len(browser.fetches) < MaxInFlight
    /\ LET ctx == browser.state
           r == StartSpan([traceId |-> <<ctx.traceId>>,
                           parentSpanId |-> <<ctx.parentSpanId>>,
                           traceFlags |-> <<ctx.traceFlags>>], minted)
           traceparent == FormatTraceparent(r.ctx.traceId, r.ctx.spanId,
                                            <<r.ctx.traceFlags>>)
       IN /\ browser' = [browser EXCEPT
                            !.fetches =
                                Append(@, [span |-> r.ctx,
                                           outbound |->
                                               IF DefaultPropagateTo(url, PageLocation)
                                               THEN <<InjectTraceparent(NoHeader, traceparent)>>
                                               ELSE <<>>]),
                            !.last = LastOp("fetch", "awaits", <<>>, <<>>)]
          /\ minted' = r.minted
    /\ UNCHANGED browserRest

\* baseFetch resolves for the k-th fetch in flight, with a response whose
\* traceparent header is responseTraceparent.
BrowserFetchResolves(k, responseTraceparent) ==
    /\ browser.pc = "live"
    /\ k \in DOMAIN browser.fetches
    /\ LET fetchSpan == browser.fetches[k].span
           after == IF browser.updateContextFromResponse
                    THEN ContextAfterResponse(browser.state, fetchSpan,
                                              responseTraceparent)
                    ELSE browser.state
       IN browser' = [browser EXCEPT
                         !.state = after,
                         !.fetches = RemoveAt(@, k),
                         !.pairs = IF browser.updateContextFromResponse
                                   THEN @ \cup {PairOf(after)} ELSE @,
                         !.last = LastOp("resolved", "returns", <<>>,
                                         <<[span |-> fetchSpan,
                                            header |-> responseTraceparent]>>)]
    /\ UNCHANGED <<minted, browserRest>>

\* baseFetch rejects for the k-th fetch in flight: the traced fetch rejects
\* with the same error.
BrowserFetchRejects(k) ==
    /\ browser.pc = "live"
    /\ k \in DOMAIN browser.fetches
    /\ browser' = [browser EXCEPT
                      !.fetches = RemoveAt(@, k),
                      !.last = LastOp("rejected", "throws", <<>>,
                                      <<[span |-> browser.fetches[k].span,
                                         header |-> NoHeader]>>)]
    /\ UNCHANGED <<minted, browserRest>>

BrowserOpsInit ==
    /\ ParkedBase
    /\ AdapterIdleBut("browser")
    /\ browser \in {BrowserBoot(b, u) : b \in {NoHeader, ValidHeader},
                                        u \in BOOLEAN}
    /\ minted = 0
    /\ events = <<>>

BrowserOpsNext ==
    \/ CreateBrowserContext
    \/ WithSpanEnter
    \/ \E how \in {"returns", "throws"} :
          WithSpanExit(Len(browser.frames), how)
    \/ \E context \in SetContexts : SetTraceContext(context)
    \/ \E traceparent \in ResponseHeaders : UpdateFromTraceparent(traceparent)
    \/ \E url \in Urls : BrowserFetchStart(url)
    \/ \E k \in DOMAIN browser.fetches, h \in ResponseHeaders :
          BrowserFetchResolves(k, h)
    \/ \E k \in DOMAIN browser.fetches : BrowserFetchRejects(k)

BrowserOpsSpec == BrowserOpsInit /\ [][BrowserOpsNext]_vars

\* C39: the context's (traceId, parentSpanId) pair is always one that was
\* established together, by the bootstrap, setTraceContext,
\* updateFromTraceparent, a traced fetch's context update or withSpan's
\* child of the then-current trace; in particular the restore at the end of
\* withSpan never combines a trace adopted during the callback with the
\* parentSpanId of the trace before it.
C39_PairEstablishedTogether ==
    browser.pc = "live" => PairOf(browser.state) \in browser.pairs

\* Traced fetches on a context that is otherwise only replaced by
\* setTraceContext.
BrowserFetchInit == BrowserOpsInit

BrowserFetchNext ==
    \/ CreateBrowserContext
    \/ \E context \in SetContexts : SetTraceContext(context)
    \/ \E url \in Urls : BrowserFetchStart(url)
    \/ \E k \in DOMAIN browser.fetches, h \in ResponseHeaders :
          BrowserFetchResolves(k, h)
    \/ \E k \in DOMAIN browser.fetches : BrowserFetchRejects(k)

BrowserFetchSpec == BrowserFetchInit /\ [][BrowserFetchNext]_vars

\* A traced fetch settles in this step.
BrowserFetchSettles == Len(browser'.fetches) < Len(browser.fetches)

\* The context the response header h stands for.
ResponseContext(h) ==
    [traceId |-> h.parts[2], parentSpanId |-> h.parts[3],
     traceFlags |-> h.parts[4]]

====
